---- MODULE Spec2Model ----
(***************************************************************************)
(* Model of the category-opportunity decision pipeline of                  *)
(* src/main_analyzer.py (clean_url, classify_url, analyze_keywords) and of  *)
(* the provider adapters of src/functions.py (get_organic_results,          *)
(* _call_firecrawl_extract and the three assessors).                        *)
(*                                                                         *)
(* A URL string is modelled by the components urlparse splits it into; a    *)
(* path is the sequence of its tokens ("/" and the words between), so that   *)
(* str.startswith, len and the substring test '/products/' in url are        *)
(* computed on the token sequence.  No token is a prefix of another one,     *)
(* hence a token-sequence prefix is exactly a string prefix.                 *)
(*                                                                         *)
(* Spec is the run of analyze_keywords.  SpecFn calls clean_url,            *)
(* classify_url and the final decision logic directly, on urls and          *)
(* evidence that a run of Spec is too small to rank.                        *)
(* SpecOrd analyzes one keyword on the rankings of a fixed set of urls,     *)
(* the relevance provider answering the same on a url in every run.         *)
(* FairSpec is Spec with every enabled step eventually taken.               *)
(***************************************************************************)
EXTENDS Naturals, Sequences, FiniteSets, TLC

\* ------------------------------------------------------------------ bounds
\* Organic results the search provider answers with over one run, all
\* keywords together.
MaxOrganic == 2

\* ----------------------------------------------------------- configuration
TARGET_SITE == "fatshackvintage.com.au"

WWW_SITE == "www.fatshackvintage.com.au"

\* A parsed URL: what urlparse yields.  malformed stands for a link that is
\* not a str or on which urlparse raises (ValueError).
Url(s, n, p, q, f) ==
    [scheme |-> s, netloc |-> n, path |-> p, query |-> q, fragment |-> f, malformed |-> FALSE]

SiteUrl(p) == Url("https", WWW_SITE, p, "", "")

TARGET_SITE_URL_BASE == SiteUrl(<<"/">>)

KNOWN_PLP_PATHS ==
    << SiteUrl(<<"/", "shop-by-category", "/">>),
       SiteUrl(<<"/", "shop-all", "-products", "/">>),
       SiteUrl(<<"/", "shop-all", "/">>),
       SiteUrl(<<"/", "collections">>) >>

KNOWN_PDP_PATHS == << SiteUrl(<<"/", "products", "/">>) >>

KNOWN_IRRELEVANT_PATHS ==
    << SiteUrl(<<"/", "articles", "/">>),
       SiteUrl(<<"/", "help", "/">>),
       SiteUrl(<<"/", "about-us", "/">>),
       SiteUrl(<<"/", "contact-us", "/">>),
       SiteUrl(<<"/">>) >>

\* Python's None where a str (URL, verdict, reference) is expected.
None == "None"

\* clean_url's None: no URL.
NoUrl ==
    [scheme |-> None, netloc |-> None, path |-> <<>>, query |-> "", fragment |-> "", malformed |-> FALSE]

\* ------------------------------------------------------------ string helpers
Range(s) == { s[i] : i \in 1..Len(s) }

\* path p starts with the token sequence q
IsPrefix(q, p) == Len(q) <= Len(p) /\ SubSeq(p, 1, Len(q)) = q

\* cleaned_url.startswith(path) for a configured path; every configured path
\* continues with "/" after the host, so the scheme and host must be equal.
StartsWith(url, prefix) ==
    /\ url.scheme = prefix.scheme
    /\ url.netloc = prefix.netloc
    /\ IsPrefix(prefix.path, url.path)

\* len(cleaned_url) > len(path), compared where url starts with path
Longer(url, prefix) == Len(url.path) > Len(prefix.path)

\* '/seg/' in cleaned_url
Contains(url, seg) ==
    \E i \in 1..Len(url.path) :
        /\ i + 2 <= Len(url.path)
        /\ url.path[i] = "/" /\ url.path[i + 1] = seg /\ url.path[i + 2] = "/"

\* ------------------------------------------------------------------ clean_url
\* Faulty variant of clean_url: line 103 prepends '/' to the path whether or
\* not it starts with one.
clean_url_AlwaysSlash(url) ==
    IF url = NoUrl \/ url.malformed THEN NoUrl
    ELSE LET scheme == IF url.scheme # "" THEN url.scheme ELSE "https"
             netloc == IF url.netloc # "" THEN url.netloc ELSE TARGET_SITE
             path0  == <<"/">> \o url.path
             path   == IF path0 = <<"/">> THEN <<>> ELSE path0
         IN  Url(scheme, netloc, path, "", "")

clean_url(url) ==
    IF url = NoUrl \/ url.malformed THEN NoUrl
    ELSE LET scheme == IF url.scheme # "" THEN url.scheme ELSE "https"
             netloc == IF url.netloc # "" THEN url.netloc ELSE TARGET_SITE
             path0  == IF url.path # <<>> /\ url.path[1] = "/"
                          THEN url.path ELSE <<"/">> \o url.path
             path   == IF path0 = <<"/">> THEN <<>> ELSE path0
         IN  Url(scheme, netloc, path, "", "")

\* --------------------------------------------------------------- classify_url
\* Faulty variant of classify_url: the exclusion of line 135 is missing.
classify_url_NoExclusion(url, known_plps_from_csv) ==
    LET cleaned_url == clean_url(url)
        irr == Range(KNOWN_IRRELEVANT_PATHS)
    IN  IF cleaned_url = NoUrl THEN "Unknown"
        ELSE IF /\ \E p \in irr : StartsWith(cleaned_url, p)
                /\ \/ cleaned_url = TARGET_SITE_URL_BASE
                   \/ \E p \in irr \ {TARGET_SITE_URL_BASE} :
                          StartsWith(cleaned_url, p) /\ Longer(cleaned_url, p)
                   \/ \E p \in irr : cleaned_url = p
             THEN "Irrelevant"
        ELSE IF cleaned_url \in known_plps_from_csv THEN "Known PLP"
        ELSE IF \E p \in Range(KNOWN_PLP_PATHS) : StartsWith(cleaned_url, p)
             THEN "Known PLP"
        ELSE IF \/ \E p \in Range(KNOWN_PDP_PATHS) : StartsWith(cleaned_url, p)
                \/ Contains(cleaned_url, "products")
             THEN "Known PDP"
        ELSE "Unknown"

classify_url(url, known_plps_from_csv) ==
    LET cleaned_url == clean_url(url)
        irr == Range(KNOWN_IRRELEVANT_PATHS)
    IN  IF cleaned_url = NoUrl THEN "Unknown"
        ELSE IF /\ \E p \in irr : StartsWith(cleaned_url, p)
                /\ \/ cleaned_url = TARGET_SITE_URL_BASE
                   \/ \E p \in irr \ {TARGET_SITE_URL_BASE} :
                          StartsWith(cleaned_url, p) /\ Longer(cleaned_url, p)
                   \/ \E p \in irr : cleaned_url = p
             THEN "Irrelevant"
        ELSE IF cleaned_url \in known_plps_from_csv THEN "Known PLP"
        ELSE IF /\ \E p \in Range(KNOWN_PLP_PATHS) : StartsWith(cleaned_url, p)
                /\ ~(Contains(cleaned_url, "collections") /\ Contains(cleaned_url, "products"))
             THEN "Known PLP"
        ELSE IF \/ \E p \in Range(KNOWN_PDP_PATHS) : StartsWith(cleaned_url, p)
                \/ Contains(cleaned_url, "products")
             THEN "Known PDP"
        ELSE "Unknown"

\* ------------------------------------------------------------ the environment
\* Links the search provider may rank (organic_results[i]['link']).
L_home     == SiteUrl(<<"/">>)
L_page     == SiteUrl(<<"/", "pages", "/", "info">>)
L_shopall  == SiteUrl(<<"/", "shop-all", "-products", "/">>)
L_coll     == Url("https", WWW_SITE, <<"/", "collections", "/", "tees">>, "page=2", "")
L_prod     == SiteUrl(<<"/", "products", "/", "denim">>)
L_prodfrag == Url("https", WWW_SITE, <<"/", "products", "/", "denim">>, "", "reviews")
L_collprod == SiteUrl(<<"/", "collections", "/", "tees", "/", "products", "/", "denim">>)
L_article  == SiteUrl(<<"/", "articles", "/", "info">>)
L_bad      ==
    [scheme |-> "", netloc |-> "", path |-> <<>>, query |-> "", fragment |-> "", malformed |-> TRUE]

Links ==
    { L_home, L_page, L_shopall, L_coll, L_prod, L_prodfrag, L_collprod, L_article, L_bad }

\* organic_results entries: a link, or no link at all (NoUrl).
OrganicLinks == Links \cup { NoUrl }

RawHtmlRefs == { "serp.html" }

SeqsUpTo(S, n) == UNION { [1..m -> S] : m \in 0..n }

\* What the search provider does on one request.
SearchAnswers ==
    { [kind |-> k, organic |-> <<>>, raw_html_file |-> None] :
          k \in {"request_exception", "unexpected_exception"} }
    \cup
    { [kind |-> "ok", organic |-> o, raw_html_file |-> r] :
          o \in SeqsUpTo(OrganicLinks, MaxOrganic), r \in RawHtmlRefs }

KeywordLists == { <<>>, <<"hair powder">>, <<"hair powder", "contact lenses">> }

\* The externally supplied known-listing set (cleaned URLs).
KnownPlpLists == { {}, { clean_url(L_page) } }

LISTING_SCALE == {"Closely Related", "Loosely Related", "Unrelated"}

DETAIL_SCALE == {"Related", "Unrelated"}

\* Payloads ('data') of the relevance provider, per prompt.
ListingPayloads ==
    { [Relevant |-> v, Analysis |-> "analysis"] : v \in LISTING_SCALE \cup {"Somewhat Related"} }
    \cup { [Relevant |-> "Closely Related"] }

DetailPayloads ==
    { [Relevance |-> v, Analysis |-> "analysis"] : v \in DETAIL_SCALE \cup {"Maybe"} }
    \cup { [Analysis |-> "analysis"] }

Combined(t, r) == [determined_type |-> t, relevance |-> r, analysis |-> "analysis"]

\* The combined answers: the pairs the prompt asks for, pairs it does not ask
\* for that pass the validation of lines 217-219 (a PDP or an Other page
\* with a listing relevance, a PLP with N/A), values outside the allowed
\* lists, and a payload without its analysis.
CombinedPayloads ==
    { Combined("PLP", r) : r \in LISTING_SCALE \cup {"N/A"} }
    \cup { Combined("Brand Page", r) : r \in {"Closely Related", "Loosely Related"} }
    \cup { Combined("PDP", r) : r \in DETAIL_SCALE \cup {"Closely Related"} }
    \cup { Combined("Article", "N/A"), Combined("Other", "Closely Related"),
           Combined("Video", "Related"), Combined("PLP", "Very Related"),
           [determined_type |-> "PLP", relevance |-> "Closely Related"] }

\* What app.extract does on one request: raises, or answers a response.
FirecrawlResponses(payloads) ==
    { [kind |-> k] : k \in {"exception", "empty", "error", "no_data"} }
    \cup { [kind |-> "data", data |-> d] : d \in payloads }

\* ------------------------------------------------------------------ the state
VARIABLES
    keywords,                   \* analyze_keywords' argument
    known_plps_list,            \* analyze_keywords' argument
    SERPAPI_API_KEY,            \* functions.py:15, TRUE when set
    FIRECRAWL_API_KEY,          \* functions.py:16, TRUE when set
    organic_left,               \* organic results the search provider has left to answer with
    pc,                         \* position in analyze_keywords
    ki,                         \* index of the keyword of the for loop (line 149)
    idx,                        \* index of the url of the inner for loop
    keyword_result,
    serp_df,                    \* the 'Ranking URL' column
    classified_urls,
    known_plp_assessments,
    known_pdp_assessments,
    unknown_url_assessments,
    found_closely_related_plp,
    best_plp_relevance,
    found_related_pdp,
    results_list,
    log,                        \* external calls, pauses and appends, in order
    fn_pc,                      \* position in the sequence of direct calls
    fn_url,                     \* the url a direct call is made on
    fn_known,                   \* its known_plps_from_csv
    fn_best,                    \* best_plp_relevance given to the final decision
    fn_pdp,                     \* found_related_pdp given to the final decision
    fn_cleaned,                 \* what the calls of clean_url returned, in order
    fn_type,                    \* what the calls of classify_url returned, in order
    fn_decision,                \* what the final decision logic gave, in order
    ord_pc,                     \* position in the runs of one keyword over its rankings
    ord_urls,                   \* the keyword's ranked urls, as a set
    ord_known,                  \* its known_plps_list
    ord_response,               \* what the relevance provider answers on each url
    ord_runs                    \* what each run gave, in order

vars ==
    << keywords, known_plps_list, SERPAPI_API_KEY, FIRECRAWL_API_KEY, organic_left,
       pc, ki, idx, keyword_result, serp_df, classified_urls, known_plp_assessments,
       known_pdp_assessments, unknown_url_assessments, found_closely_related_plp,
       best_plp_relevance, found_related_pdp, results_list, log,
       fn_pc, fn_url, fn_known, fn_best, fn_pdp, fn_cleaned, fn_type, fn_decision,
       ord_pc, ord_urls, ord_known, ord_response, ord_runs >>

env == << keywords, known_plps_list, SERPAPI_API_KEY, FIRECRAWL_API_KEY >>

evidence == << found_closely_related_plp, best_plp_relevance, found_related_pdp >>

assessments == << known_plp_assessments, known_pdp_assessments, unknown_url_assessments >>

\* The direct calls of clean_url, classify_url and the final decision logic.
fn == << fn_pc, fn_url, fn_known, fn_best, fn_pdp, fn_cleaned, fn_type, fn_decision >>

\* The runs of one keyword over the rankings of its urls.
ord == << ord_pc, ord_urls, ord_known, ord_response, ord_runs >>

\* ------------------------------------------------------------------- delays
DELAY_BETWEEN_KEYWORDS == 2

DELAY_BETWEEN_URL_ASSESSMENTS == 1

\* -------------------------------------------------------------------- helpers
\* {} : the empty dict
EmptyMap == [u \in {} |-> 0]

\* d[k] = v
Put(d, k, v) == (k :> v) @@ d

BUCKETS == {"Known PLP", "Known PDP", "Irrelevant", "Unknown"}

\* An entry of the log.  n is the number of ranked URLs a search returned,
\* the seconds of a pause, for a relevance call 1 when the assessor returned
\* None, and 0 otherwise.
Ev(e, k, u, n) == [ev |-> e, kw |-> k, url |-> u, n |-> n]

\* 1 when an assessor returned None (<< >>), else 0.
Failed(result) == IF result = << >> THEN 1 ELSE 0

SleepUrl(k) == Ev("sleep", k, NoUrl, DELAY_BETWEEN_URL_ASSESSMENTS)

SleepKeyword(k) == Ev("sleep", k, NoUrl, DELAY_BETWEEN_KEYWORDS)

\* ------------------------------------------------------- get_organic_results
\* The tuple the function returns when the provider's answer to its request
\* is answer: (raw_html_file, result_df) on success, and three values on
\* each failure.
get_organic_results(answer) ==
    LET failed == << None, <<>>, None >>
    IN  IF ~SERPAPI_API_KEY THEN failed
        ELSE IF answer.kind = "request_exception" THEN failed
        ELSE IF answer.kind = "unexpected_exception" THEN failed
        ELSE << answer.raw_html_file, SelectSeq(answer.organic, LAMBDA l : l # NoUrl) >>

\* ---------------------------------------------------- _call_firecrawl_extract
\* The result is a sequence: << >> is None, << data >> is the data returned.
_call_firecrawl_extract(response) ==
    IF ~FIRECRAWL_API_KEY THEN << >>
    ELSE IF response.kind = "data" THEN << response.data >>
    ELSE << >>

\* Faulty variant of assess_category_page_relevance: the validation of line
\* 141 is missing.
assess_category_page_relevance_Unvalidated(response) ==
    _call_firecrawl_extract(response)

assess_category_page_relevance(response) ==
    LET result == _call_firecrawl_extract(response)
    IN  IF result # << >> /\ "Relevant" \in DOMAIN result[1] /\ "Analysis" \in DOMAIN result[1]
        THEN result ELSE << >>

assess_product_page_relevance(response) ==
    LET result == _call_firecrawl_extract(response)
    IN  IF result # << >> /\ "Relevance" \in DOMAIN result[1] /\ "Analysis" \in DOMAIN result[1]
        THEN result ELSE << >>

classify_and_assess_url(response) ==
    LET result == _call_firecrawl_extract(response)
        allowed_types == {"PLP", "PDP", "Brand Page", "Article", "Other"}
        allowed_relevance == {"Closely Related", "Loosely Related", "Unrelated", "Related", "N/A"}
    IN  IF /\ result # << >>
           /\ "determined_type" \in DOMAIN result[1]
           /\ "relevance" \in DOMAIN result[1]
           /\ "analysis" \in DOMAIN result[1]
        THEN IF result[1].determined_type \in allowed_types
                  /\ result[1].relevance \in allowed_relevance
             THEN result ELSE << >>
        ELSE << >>

\* ------------------------------------------------- analyze_keywords: Classify
AllClassified(c) == UNION { Range(c[b]) : b \in BUCKETS }

\* Faulty variant of ClassifyOne: the test of line 187 is missing.
ClassifyOne_NoDedup(c, url, known) ==
    LET cleaned == clean_url(url)
        page_type == classify_url(cleaned, known)
    IN  IF cleaned = NoUrl THEN c
        ELSE [c EXCEPT ![page_type] = Append(@, cleaned)]

\* Faulty variant of ClassifyOne: the test of line 185 is missing, a link
\* that does not normalize is classified like any other.
ClassifyOne_KeepsUnparsed(c, url, known) ==
    LET cleaned == clean_url(url)
        page_type == classify_url(cleaned, known)
    IN  IF cleaned \notin AllClassified(c)
        THEN [c EXCEPT ![page_type] = Append(@, cleaned)]
        ELSE c

\* Faulty variant of ClassifyOne: the url is put at the head of its bucket,
\* the buckets are in reverse ranking order.
ClassifyOne_Prepends(c, url, known) ==
    LET cleaned == clean_url(url)
        page_type == classify_url(cleaned, known)
    IN  IF cleaned = NoUrl THEN c
        ELSE IF cleaned \notin AllClassified(c)
             THEN [c EXCEPT ![page_type] = << cleaned >> \o @]
        ELSE c

\* One iteration of the loop of lines 183-188.
ClassifyOne(c, url, known) ==
    LET cleaned == clean_url(url)
        page_type == classify_url(cleaned, known)
    IN  IF cleaned = NoUrl THEN c
        ELSE IF cleaned \notin AllClassified(c)
             THEN [c EXCEPT ![page_type] = Append(@, cleaned)]
        ELSE c

RECURSIVE ClassifyFrom(_, _, _, _)
ClassifyFrom(c, urls, i, known) ==
    IF i > Len(urls) THEN c
    ELSE ClassifyFrom(ClassifyOne(c, urls[i], known), urls, i + 1, known)

ClassifyAll(urls, known) == ClassifyFrom([b \in BUCKETS |-> <<>>], urls, 1, known)

\* ----------------------------------------------------------- analyze_keywords
\* Faulty variant of NewKeywordResult: the key of line 158 is missing, it
\* appears only once stage 4 stores its map.
NewKeywordResult_NoUnknownKey(keyword) ==
    [ Keyword                |-> keyword,
      SERP_Results_Found     |-> FALSE,
      Initial_Classification |-> EmptyMap,
      Known_PLP_Assessment   |-> EmptyMap,
      Known_PDP_Assessment   |-> EmptyMap,
      Decision               |-> "Error",
      Justification          |-> "Processing failed.",
      SERP_Raw_HTML_URL      |-> None ]

NewKeywordResult(keyword) ==
    [ Keyword                |-> keyword,
      SERP_Results_Found     |-> FALSE,
      Initial_Classification |-> EmptyMap,
      Known_PLP_Assessment   |-> EmptyMap,
      Known_PDP_Assessment   |-> EmptyMap,
      Unknown_URL_Assessment |-> EmptyMap,
      Decision               |-> "Error",
      Justification          |-> "Processing failed.",
      SERP_Raw_HTML_URL      |-> None ]

Init ==
    /\ keywords \in KeywordLists
    /\ known_plps_list \in KnownPlpLists
    /\ SERPAPI_API_KEY \in BOOLEAN
    /\ FIRECRAWL_API_KEY \in BOOLEAN
    /\ organic_left = MaxOrganic
    /\ pc = "fetch"
    /\ ki = 1
    /\ idx = 1
    /\ keyword_result = NewKeywordResult(None)
    /\ serp_df = <<>>
    /\ classified_urls = [b \in BUCKETS |-> <<>>]
    /\ known_plp_assessments = EmptyMap
    /\ known_pdp_assessments = EmptyMap
    /\ unknown_url_assessments = EmptyMap
    /\ found_closely_related_plp = FALSE
    /\ best_plp_relevance = None
    /\ found_related_pdp = FALSE
    /\ results_list = <<>>
    /\ log = <<>>
    /\ fn_pc = "off"
    /\ fn_url = NoUrl
    /\ fn_known = {}
    /\ fn_best = None
    /\ fn_pdp = FALSE
    /\ fn_cleaned = <<>>
    /\ fn_type = <<>>
    /\ fn_decision = <<>>
    /\ ord_pc = "off"
    /\ ord_urls = {}
    /\ ord_known = {}
    /\ ord_response = EmptyMap
    /\ ord_runs = <<>>

\* Faulty variant of AppendAndContinue: the dict of line 152 is created once,
\* before the loop, so every element of results_list is the same object and
\* shows the latest keyword's content.
AppendAndContinue_SharedRecord(kr, lg) ==
    /\ keyword_result' = kr
    /\ results_list' = [i \in 1..(Len(results_list) + 1) |-> kr]
    /\ log' = lg \o << Ev("append", ki, NoUrl, 0), SleepKeyword(ki) >>
    /\ ki' = ki + 1
    /\ idx' = 1
    /\ pc' = "fetch"

\* Faulty variant of AppendAndContinue: time.sleep(DELAY_BETWEEN_KEYWORDS) is
\* missing.
AppendAndContinue_NoPause(kr, lg) ==
    /\ keyword_result' = kr
    /\ results_list' = Append(results_list, kr)
    /\ log' = Append(lg, Ev("append", ki, NoUrl, 0))
    /\ ki' = ki + 1
    /\ idx' = 1
    /\ pc' = "fetch"

\* results_list.append(keyword_result); time.sleep(DELAY_BETWEEN_KEYWORDS);
\* continue with the next keyword.
AppendAndContinue(kr, lg) ==
    /\ keyword_result' = kr
    /\ results_list' = Append(results_list, kr)
    /\ log' = lg \o << Ev("append", ki, NoUrl, 0), SleepKeyword(ki) >>
    /\ ki' = ki + 1
    /\ idx' = 1
    /\ pc' = "fetch"

\* The stage that runs after stage `after`, given the buckets c: the tests
\* of lines 202, 235 and 279 skip a stage whose bucket is empty.
StageAfter(after, c) ==
    IF after < 3 /\ c["Known PLP"] # <<>> THEN "s3"
    ELSE IF after < 4 /\ c["Unknown"] # <<>> THEN "s4"
    ELSE IF after < 5 /\ c["Known PDP"] # <<>> THEN "s5"
    ELSE "synth"

\* Lines 149-179: a new keyword_result, the search, and the exit on an empty
\* result.  The caller unpacks two values (line 166).
Fetch ==
    /\ pc = "fetch"
    /\ ki <= Len(keywords)
    /\ \E answer \in SearchAnswers :
        /\ Len(answer.organic) <= organic_left
        /\ LET ret == get_organic_results(answer)
               kr == NewKeywordResult(keywords[ki])
               lg == Append(log, Ev("search", ki, NoUrl, Len(ret[2])))
           IN  /\ organic_left' = IF SERPAPI_API_KEY
                                     THEN organic_left - Len(answer.organic)
                                     ELSE organic_left
               /\ IF Len(ret) # 2
                  THEN \* ValueError: too many values to unpack (expected 2)
                       /\ pc' = "raised"
                       /\ keyword_result' = kr
                       /\ log' = lg
                       /\ UNCHANGED << ki, idx, serp_df, results_list >>
                  ELSE IF ret[2] = <<>>
                  THEN /\ AppendAndContinue(
                              [kr EXCEPT !.Decision = "No (Irrelevant)",
                                         !.Justification =
                                             "No organic results found for this keyword on the target site.",
                                         !.SERP_Raw_HTML_URL = ret[1]], lg)
                       /\ serp_df' = ret[2]
                  ELSE /\ keyword_result' = [kr EXCEPT !.SERP_Results_Found = TRUE,
                                                       !.SERP_Raw_HTML_URL = ret[1]]
                       /\ serp_df' = ret[2]
                       /\ log' = lg
                       /\ pc' = "classify"
                       /\ UNCHANGED << ki, idx, results_list >>
    /\ UNCHANGED << env, fn, ord, classified_urls, assessments, evidence >>

\* Faulty variant of Classify: lines 197-199 run once, before the loop over
\* the keywords, so the evidence of a keyword is still there for the next.
Classify_KeepsEvidence ==
    /\ pc = "classify"
    /\ LET c == ClassifyAll(serp_df, known_plps_list)
       IN  /\ classified_urls' = c
           /\ keyword_result' = [keyword_result EXCEPT !.Initial_Classification = c]
           /\ pc' = StageAfter(2, c)
    /\ known_plp_assessments' = EmptyMap
    /\ known_pdp_assessments' = EmptyMap
    /\ unknown_url_assessments' = EmptyMap
    /\ idx' = 1
    /\ UNCHANGED << env, fn, ord, organic_left, ki, serp_df, results_list, log, evidence >>

\* Lines 181-199: the buckets, and the evidence state of the keyword.
Classify ==
    /\ pc = "classify"
    /\ LET c == ClassifyAll(serp_df, known_plps_list)
       IN  /\ classified_urls' = c
           /\ keyword_result' = [keyword_result EXCEPT !.Initial_Classification = c]
           /\ pc' = StageAfter(2, c)
    /\ known_plp_assessments' = EmptyMap
    /\ known_pdp_assessments' = EmptyMap
    /\ unknown_url_assessments' = EmptyMap
    /\ found_closely_related_plp' = FALSE
    /\ best_plp_relevance' = None
    /\ found_related_pdp' = FALSE
    /\ idx' = 1
    /\ UNCHANGED << env, fn, ord, organic_left, ki, serp_df, results_list, log >>

\* Faulty variant of known_plp_best: a failed call is handled by the branch
\* of line 216 instead of the one of line 221.
known_plp_best_FailureIsLoose(best, result) ==
    IF result # << >>
    THEN IF result[1].Relevant = "Loosely Related" THEN "Loosely Related"
         ELSE IF best = None THEN "Unrelated"
         ELSE best
    ELSE "Loosely Related"

\* Faulty variant of known_plp_best: the test 'best_plp_relevance is None'
\* of lines 217 and 221 is missing, the last result wins.
known_plp_best_LastWins(best, result) ==
    IF result # << >> /\ result[1].Relevant = "Loosely Related" THEN "Loosely Related"
    ELSE "Unrelated"

\* Lines 207-221: best_plp_relevance after one Known PLP result, on the
\* paths that do not break (<< >> is the failed call).
known_plp_best(best, result) ==
    IF result # << >>
    THEN IF result[1].Relevant = "Loosely Related" THEN "Loosely Related"
         ELSE IF best = None THEN "Unrelated"
         ELSE best
    ELSE IF best = None THEN "Unrelated" ELSE best

\* Lines 208 and 220: the entry recorded for the url.
known_plp_entry(result) ==
    IF result # << >> THEN result[1]
    ELSE [Relevant |-> "Assessment Failed", Analysis |-> "API call failed."]

\* Lines 204-221: one iteration over the Known PLP bucket.  On Closely
\* Related, line 211 has run and line 212 is next.
AssessKnownPLP ==
    /\ pc = "s3"
    /\ idx <= Len(classified_urls["Known PLP"])
    /\ \E response \in FirecrawlResponses(ListingPayloads) :
        LET url == classified_urls["Known PLP"][idx]
            result == assess_category_page_relevance(response)
        IN  /\ log' = log \o << SleepUrl(ki), Ev("assess_listing", ki, url, Failed(result)) >>
            /\ known_plp_assessments' = Put(known_plp_assessments, url, known_plp_entry(result))
            /\ IF result # << >> /\ result[1].Relevant = "Closely Related"
               THEN /\ found_closely_related_plp' = TRUE
                    /\ pc' = "s3_l212"
                    /\ UNCHANGED << best_plp_relevance, idx >>
               ELSE /\ best_plp_relevance' = known_plp_best(best_plp_relevance, result)
                    /\ idx' = idx + 1
                    /\ pc' = IF idx = Len(classified_urls["Known PLP"]) THEN "s3_end" ELSE "s3"
                    /\ UNCHANGED found_closely_related_plp
    /\ UNCHANGED << env, fn, ord, organic_left, ki, keyword_result, serp_df, classified_urls,
                    known_pdp_assessments, unknown_url_assessments, found_related_pdp,
                    results_list >>

\* Faulty variant of KnownPLPBreak: the break of line 214 is missing, the
\* loop goes on with the next Known PLP.
KnownPLPBreak_NoBreak ==
    /\ pc = "s3_l212"
    /\ best_plp_relevance' = "Closely Related"
    /\ idx' = idx + 1
    /\ pc' = IF idx = Len(classified_urls["Known PLP"]) THEN "s3_end" ELSE "s3"
    /\ UNCHANGED << env, fn, ord, organic_left, ki, keyword_result, serp_df, classified_urls,
                    assessments, found_closely_related_plp, found_related_pdp,
                    results_list, log >>

\* Faulty variant of KnownPLPBreak: line 212 is missing.
KnownPLPBreak_ForgetsBest ==
    /\ pc = "s3_l212"
    /\ pc' = "s3_end"
    /\ UNCHANGED << env, fn, ord, organic_left, ki, idx, keyword_result, serp_df, classified_urls,
                    assessments, evidence, results_list, log >>

\* Lines 212-214: the second assignment, and the break.
KnownPLPBreak ==
    /\ pc = "s3_l212"
    /\ best_plp_relevance' = "Closely Related"
    /\ pc' = "s3_end"
    /\ UNCHANGED << env, fn, ord, organic_left, ki, idx, keyword_result, serp_df, classified_urls,
                    assessments, found_closely_related_plp, found_related_pdp,
                    results_list, log >>

\* Lines 222-229: after the loop over the Known PLP bucket.
KnownPLPEnd ==
    /\ pc = "s3_end"
    /\ LET kr == [keyword_result EXCEPT !.Known_PLP_Assessment = known_plp_assessments]
       IN  IF found_closely_related_plp
           THEN AppendAndContinue(
                    [kr EXCEPT !.Decision = "No (Existing page sufficient)",
                               !.Justification = "A 'Closely Related' Known PLP was found in SERP."],
                    log)
           ELSE /\ keyword_result' = kr
                /\ pc' = StageAfter(3, classified_urls)
                /\ idx' = 1
                /\ UNCHANGED << ki, results_list, log >>
    /\ UNCHANGED << env, fn, ord, organic_left, serp_df, classified_urls, assessments, evidence >>

\* Faulty variant of unknown_plp_best: the test 'best_plp_relevance is None'
\* of line 256 is missing, an Unrelated result overwrites a better one.
unknown_plp_best_Overwrites(best, relevance) ==
    IF relevance = "Loosely Related" /\ best # "Closely Related" THEN "Loosely Related"
    ELSE IF relevance = "Unrelated" THEN "Unrelated"
    ELSE best

\* Lines 246-257 without the break: best_plp_relevance after a result typed
\* PLP or Brand Page.
unknown_plp_best(best, relevance) ==
    IF relevance = "Loosely Related" /\ best # "Closely Related" THEN "Loosely Related"
    ELSE IF relevance = "Unrelated" /\ best = None THEN "Unrelated"
    ELSE best

\* Lines 241 and 267: the entry recorded for the url.
unknown_entry(result) ==
    IF result # << >> THEN result[1]
    ELSE [determined_type |-> "Error", relevance |-> "Error", analysis |-> "API call failed."]

\* Faulty variant of AssessUnknown: the test of determined_type of line 246
\* is missing, the relevance of any page type is taken for a listing's.
AssessUnknown_AnyType ==
    /\ pc = "s4"
    /\ idx <= Len(classified_urls["Unknown"])
    /\ \E response \in FirecrawlResponses(CombinedPayloads) :
        LET url == classified_urls["Unknown"][idx]
            result == classify_and_assess_url(response)
            is_plp == result # << >>
            is_pdp == result # << >> /\ result[1].determined_type = "PDP"
        IN  /\ log' = log \o << SleepUrl(ki), Ev("assess_unknown", ki, url, Failed(result)) >>
            /\ unknown_url_assessments' = Put(unknown_url_assessments, url, unknown_entry(result))
            /\ IF is_plp /\ result[1].relevance = "Closely Related"
               THEN /\ best_plp_relevance' = "Closely Related"
                    /\ pc' = "s4_l251"
                    /\ UNCHANGED << found_related_pdp, idx >>
               ELSE /\ best_plp_relevance' =
                           IF is_plp THEN unknown_plp_best(best_plp_relevance, result[1].relevance)
                           ELSE best_plp_relevance
                    /\ found_related_pdp' =
                           IF is_pdp /\ result[1].relevance = "Related" THEN TRUE
                           ELSE found_related_pdp
                    /\ idx' = idx + 1
                    /\ pc' = IF idx = Len(classified_urls["Unknown"]) THEN "s4_end" ELSE "s4"
    /\ UNCHANGED << env, fn, ord, organic_left, ki, keyword_result, serp_df, classified_urls,
                    known_plp_assessments, known_pdp_assessments, found_closely_related_plp,
                    results_list >>

\* Lines 237-267: one iteration over the Unknown bucket.  On a Closely
\* Related PLP or Brand Page, line 250 has run and line 251 is next.
AssessUnknown ==
    /\ pc = "s4"
    /\ idx <= Len(classified_urls["Unknown"])
    /\ \E response \in FirecrawlResponses(CombinedPayloads) :
        LET url == classified_urls["Unknown"][idx]
            result == classify_and_assess_url(response)
            is_plp == result # << >> /\ result[1].determined_type \in {"PLP", "Brand Page"}
            is_pdp == result # << >> /\ result[1].determined_type = "PDP"
        IN  /\ log' = log \o << SleepUrl(ki), Ev("assess_unknown", ki, url, Failed(result)) >>
            /\ unknown_url_assessments' = Put(unknown_url_assessments, url, unknown_entry(result))
            /\ IF is_plp /\ result[1].relevance = "Closely Related"
               THEN /\ best_plp_relevance' = "Closely Related"
                    /\ pc' = "s4_l251"
                    /\ UNCHANGED << found_related_pdp, idx >>
               ELSE /\ best_plp_relevance' =
                           IF is_plp THEN unknown_plp_best(best_plp_relevance, result[1].relevance)
                           ELSE best_plp_relevance
                    /\ found_related_pdp' =
                           IF is_pdp /\ result[1].relevance = "Related" THEN TRUE
                           ELSE found_related_pdp
                    /\ idx' = idx + 1
                    /\ pc' = IF idx = Len(classified_urls["Unknown"]) THEN "s4_end" ELSE "s4"
    /\ UNCHANGED << env, fn, ord, organic_left, ki, keyword_result, serp_df, classified_urls,
                    known_plp_assessments, known_pdp_assessments, found_closely_related_plp,
                    results_list >>

\* Faulty variant of UnknownBreak: the break of line 253 is missing, the
\* loop goes on with the next Unknown URL.
UnknownBreak_NoBreak ==
    /\ pc = "s4_l251"
    /\ found_closely_related_plp' = TRUE
    /\ idx' = idx + 1
    /\ pc' = IF idx = Len(classified_urls["Unknown"]) THEN "s4_end" ELSE "s4"
    /\ UNCHANGED << env, fn, ord, organic_left, ki, keyword_result, serp_df, classified_urls,
                    assessments, best_plp_relevance, found_related_pdp, results_list, log >>

\* Faulty variant of UnknownBreak: line 251 is missing, the flag stays down.
UnknownBreak_ForgetsFlag ==
    /\ pc = "s4_l251"
    /\ pc' = "s4_end"
    /\ UNCHANGED << env, fn, ord, organic_left, ki, idx, keyword_result, serp_df, classified_urls,
                    assessments, evidence, results_list, log >>

\* Lines 251-253: the second assignment, and the break.
UnknownBreak ==
    /\ pc = "s4_l251"
    /\ found_closely_related_plp' = TRUE
    /\ pc' = "s4_end"
    /\ UNCHANGED << env, fn, ord, organic_left, ki, idx, keyword_result, serp_df, classified_urls,
                    assessments, best_plp_relevance, found_related_pdp, results_list, log >>

\* Faulty variant of UnknownEnd: line 268 runs only when the loop was not
\* left by the break, so the early exit appends the record without the
\* entries of stage 4.
UnknownEnd_DropsOnExit ==
    /\ pc = "s4_end"
    /\ IF found_closely_related_plp
       THEN AppendAndContinue(
                [keyword_result EXCEPT
                     !.Decision = "No (Existing page sufficient)",
                     !.Justification =
                         "AI identified a 'Closely Related' PLP or Brand Page in SERP."],
                log)
       ELSE /\ keyword_result' =
                   [keyword_result EXCEPT !.Unknown_URL_Assessment = unknown_url_assessments]
            /\ pc' = StageAfter(4, classified_urls)
            /\ idx' = 1
            /\ UNCHANGED << ki, results_list, log >>
    /\ UNCHANGED << env, fn, ord, organic_left, serp_df, classified_urls, assessments, evidence >>

\* Lines 268-276: after the loop over the Unknown bucket.
UnknownEnd ==
    /\ pc = "s4_end"
    /\ LET kr == [keyword_result EXCEPT !.Unknown_URL_Assessment = unknown_url_assessments]
       IN  IF found_closely_related_plp
           THEN AppendAndContinue(
                    [kr EXCEPT !.Decision = "No (Existing page sufficient)",
                               !.Justification =
                                   "AI identified a 'Closely Related' PLP or Brand Page in SERP."],
                    log)
           ELSE /\ keyword_result' = kr
                /\ pc' = StageAfter(4, classified_urls)
                /\ idx' = 1
                /\ UNCHANGED << ki, results_list, log >>
    /\ UNCHANGED << env, fn, ord, organic_left, serp_df, classified_urls, assessments, evidence >>

\* Lines 285 and 290: the entry recorded for the url.
known_pdp_entry(result) ==
    IF result # << >> THEN result[1]
    ELSE [Relevance |-> "Assessment Failed", Analysis |-> "API call failed."]

\* Faulty variant of AssessKnownPDP: a break follows line 287, the loop ends
\* at the first Related product.
AssessKnownPDP_StopsAtRelated ==
    /\ pc = "s5"
    /\ idx <= Len(classified_urls["Known PDP"])
    /\ \E response \in FirecrawlResponses(DetailPayloads) :
        LET url == classified_urls["Known PDP"][idx]
            result == assess_product_page_relevance(response)
        IN  /\ log' = log \o << SleepUrl(ki), Ev("assess_detail", ki, url, Failed(result)) >>
            /\ known_pdp_assessments' = Put(known_pdp_assessments, url, known_pdp_entry(result))
            /\ found_related_pdp' =
                   IF result # << >> /\ result[1].Relevance = "Related" THEN TRUE
                   ELSE found_related_pdp
            /\ idx' = idx + 1
            /\ pc' = IF \/ idx = Len(classified_urls["Known PDP"])
                        \/ (result # << >> /\ result[1].Relevance = "Related")
                     THEN "s5_end" ELSE "s5"
    /\ UNCHANGED << env, fn, ord, organic_left, ki, keyword_result, serp_df, classified_urls,
                    known_plp_assessments, unknown_url_assessments, found_closely_related_plp,
                    best_plp_relevance, results_list >>

\* Lines 281-290: one iteration over the Known PDP bucket.
AssessKnownPDP ==
    /\ pc = "s5"
    /\ idx <= Len(classified_urls["Known PDP"])
    /\ \E response \in FirecrawlResponses(DetailPayloads) :
        LET url == classified_urls["Known PDP"][idx]
            result == assess_product_page_relevance(response)
        IN  /\ log' = log \o << SleepUrl(ki), Ev("assess_detail", ki, url, Failed(result)) >>
            /\ known_pdp_assessments' = Put(known_pdp_assessments, url, known_pdp_entry(result))
            /\ found_related_pdp' =
                   IF result # << >> /\ result[1].Relevance = "Related" THEN TRUE
                   ELSE found_related_pdp
            /\ idx' = idx + 1
            /\ pc' = IF idx = Len(classified_urls["Known PDP"]) THEN "s5_end" ELSE "s5"
    /\ UNCHANGED << env, fn, ord, organic_left, ki, keyword_result, serp_df, classified_urls,
                    known_plp_assessments, unknown_url_assessments, found_closely_related_plp,
                    best_plp_relevance, results_list >>

\* Line 291: after the loop over the Known PDP bucket.
KnownPDPEnd ==
    /\ pc = "s5_end"
    /\ keyword_result' = [keyword_result EXCEPT !.Known_PDP_Assessment = known_pdp_assessments]
    /\ pc' = "synth"
    /\ idx' = 1
    /\ UNCHANGED << env, fn, ord, organic_left, ki, serp_df, classified_urls, assessments, evidence,
                    results_list, log >>

\* Faulty variant of final_decision: the two tests of found_related_pdp are
\* inverted.
final_decision_Inverted(best, related_pdp) ==
    IF best = "Loosely Related"
    THEN IF ~related_pdp
         THEN [ Decision |-> "Yes (Create *specific* category)",
                Justification |->
                    "Found 'Loosely Related' PLP and 'Related' products/pages, suggesting a more specific category is needed." ]
         ELSE [ Decision |-> "No (Loose PLP is best for now)",
                Justification |->
                    "Found 'Loosely Related' PLP, but no specific 'Related' products/pages found to justify a new category." ]
    ELSE IF best = "Unrelated" \/ best = None
    THEN IF ~related_pdp
         THEN [ Decision |-> "Yes (Create *new* category)",
                Justification |->
                    "No relevant PLP found, but 'Related' products/pages exist, justifying a new category." ]
         ELSE [ Decision |-> "No (No relevant products/pages)",
                Justification |->
                    "No relevant PLPs or other pages related to the keyword were found." ]
    ELSE [ Decision |-> "Error", Justification |-> "Unhandled case in final decision logic." ]

\* Lines 295-312: the final decision and its justification.
final_decision(best, related_pdp) ==
    IF best = "Loosely Related"
    THEN IF related_pdp
         THEN [ Decision |-> "Yes (Create *specific* category)",
                Justification |->
                    "Found 'Loosely Related' PLP and 'Related' products/pages, suggesting a more specific category is needed." ]
         ELSE [ Decision |-> "No (Loose PLP is best for now)",
                Justification |->
                    "Found 'Loosely Related' PLP, but no specific 'Related' products/pages found to justify a new category." ]
    ELSE IF best = "Unrelated" \/ best = None
    THEN IF related_pdp
         THEN [ Decision |-> "Yes (Create *new* category)",
                Justification |->
                    "No relevant PLP found, but 'Related' products/pages exist, justifying a new category." ]
         ELSE [ Decision |-> "No (No relevant products/pages)",
                Justification |->
                    "No relevant PLPs or other pages related to the keyword were found." ]
    ELSE [ Decision |-> "Error", Justification |-> "Unhandled case in final decision logic." ]

\* Lines 293-317: Synthesize, the append and the pause.
Synthesize ==
    /\ pc = "synth"
    /\ LET d == final_decision(best_plp_relevance, found_related_pdp)
       IN  AppendAndContinue(
               [keyword_result EXCEPT !.Decision = d.Decision,
                                      !.Justification = d.Justification], log)
    /\ UNCHANGED << env, fn, ord, organic_left, serp_df, classified_urls, assessments, evidence >>

\* Lines 319-320: the loop is over, the results are returned.
Return ==
    /\ pc = "fetch"
    /\ ki > Len(keywords)
    /\ pc' = "done"
    /\ UNCHANGED << env, fn, ord, organic_left, ki, idx, keyword_result, serp_df, classified_urls,
                    assessments, evidence, results_list, log >>

Next ==
    \/ Fetch
    \/ Classify
    \/ AssessKnownPLP
    \/ KnownPLPBreak
    \/ KnownPLPEnd
    \/ AssessUnknown
    \/ UnknownBreak
    \/ UnknownEnd
    \/ AssessKnownPDP
    \/ KnownPDPEnd
    \/ Synthesize
    \/ Return

Spec == Init /\ [][Next]_vars

\* analyze_keywords runs in one thread and every call it makes returns: a
\* step that can be taken is taken.
FairSpec == Spec /\ WF_vars(Next)

\* ======================================================================
\* Direct calls of clean_url, classify_url and the final decision logic
\* ======================================================================
\* Path segments after the host of the urls the calls are made on.
MaxSegments == 2

FnSegments == {"collections", "products", "articles", "tees"}

\* '/a/b' from << a, b >>
RECURSIVE PathOf(_)
PathOf(segs) ==
    IF segs = <<>> THEN <<>> ELSE <<"/", Head(segs)>> \o PathOf(Tail(segs))

\* The paths with a leading slash: '', '/', '/a', '/a/', '/a/b', ...
FnPaths ==
    { PathOf(segs) \o t : segs \in SeqsUpTo(FnSegments, MaxSegments), t \in {<<>>, <<"/">>} }

\* The paths without a leading slash: 'a', 'a/', 'a/b', ...
FnRelativePaths == { Tail(p) : p \in { q \in FnPaths : Len(q) > 1 } }

\* The urls: absolute and scheme-less ones on both spellings of the host,
\* host-less ones, each bare or with a query and a fragment, a link that
\* does not parse, and no link at all.
FnUrls ==
    { Url(s, n, p, qf[1], qf[2]) :
          s \in {"https", ""}, n \in {WWW_SITE, TARGET_SITE, ""}, p \in FnPaths,
          qf \in { <<"", "">>, <<"page=2", "reviews">> } }
    \cup { Url("", "", p, qf[1], qf[2]) :
               p \in FnRelativePaths, qf \in { <<"", "">>, <<"page=2", "reviews">> } }
    \cup { L_bad, NoUrl }

\* The known-listing sets: empty, and one that holds the cleaned homepage, a
\* page under /articles/, a page under /products/ and a page under both
\* /collections/ and /products/.
FnKnownLists ==
    { {},
      { SiteUrl(<<>>),
        SiteUrl(<<"/", "articles", "/", "tees">>),
        SiteUrl(<<"/", "products", "/", "tees">>),
        SiteUrl(<<"/", "collections", "/", "products", "/">>) } }

FnBest == { None, "Unrelated", "Loosely Related", "Closely Related" }

InitFn ==
    /\ keywords = <<>>
    /\ known_plps_list = {}
    /\ SERPAPI_API_KEY = TRUE
    /\ FIRECRAWL_API_KEY = TRUE
    /\ organic_left = MaxOrganic
    /\ pc = "off"
    /\ ki = 1
    /\ idx = 1
    /\ keyword_result = NewKeywordResult(None)
    /\ serp_df = <<>>
    /\ classified_urls = [b \in BUCKETS |-> <<>>]
    /\ known_plp_assessments = EmptyMap
    /\ known_pdp_assessments = EmptyMap
    /\ unknown_url_assessments = EmptyMap
    /\ found_closely_related_plp = FALSE
    /\ best_plp_relevance = None
    /\ found_related_pdp = FALSE
    /\ results_list = <<>>
    /\ log = <<>>
    /\ fn_pc = "clean_url"
    /\ fn_url \in FnUrls
    /\ fn_known \in FnKnownLists
    /\ fn_best \in FnBest
    /\ fn_pdp \in BOOLEAN
    /\ fn_cleaned = <<>>
    /\ fn_type = <<>>
    /\ fn_decision = <<>>
    /\ ord_pc = "off"
    /\ ord_urls = {}
    /\ ord_known = {}
    /\ ord_response = EmptyMap
    /\ ord_runs = <<>>

pipeline ==
    << env, organic_left, pc, ki, idx, keyword_result, serp_df, classified_urls,
       assessments, evidence, results_list, log >>

\* clean_url(url), and clean_url again on what it returned.
CallCleanUrl ==
    /\ fn_pc = "clean_url"
    /\ fn_cleaned' = Append(fn_cleaned,
                            clean_url(IF fn_cleaned = <<>> THEN fn_url ELSE fn_cleaned[1]))
    /\ fn_pc' = IF fn_cleaned = <<>> THEN "clean_url" ELSE "classify_url"
    /\ UNCHANGED << pipeline, ord, fn_url, fn_known, fn_best, fn_pdp, fn_type, fn_decision >>

\* classify_url(url, known_plps_from_csv), then, as line 186 calls it,
\* classify_url(cleaned, known_plps_from_csv), then the latter once more.
CallClassifyUrl ==
    /\ fn_pc = "classify_url"
    /\ fn_type' = Append(fn_type,
                         classify_url(IF fn_type = <<>> THEN fn_url ELSE fn_cleaned[1],
                                      fn_known))
    /\ fn_pc' = IF Len(fn_type) < 2 THEN "classify_url" ELSE "final_decision"
    /\ UNCHANGED << pipeline, ord, fn_url, fn_known, fn_best, fn_pdp, fn_cleaned, fn_decision >>

\* Lines 295-312 on (best_plp_relevance, found_related_pdp), twice.
CallFinalDecision ==
    /\ fn_pc = "final_decision"
    /\ fn_decision' = Append(fn_decision, final_decision(fn_best, fn_pdp))
    /\ fn_pc' = IF fn_decision = <<>> THEN "final_decision" ELSE "returned"
    /\ UNCHANGED << pipeline, ord, fn_url, fn_known, fn_best, fn_pdp, fn_cleaned, fn_type >>

NextFn ==
    \/ CallCleanUrl
    \/ CallClassifyUrl
    \/ CallFinalDecision

SpecFn == InitFn /\ [][NextFn]_vars

\* ======================================================================
\* One keyword run over the rankings of the same urls
\* ======================================================================
\* Ranked urls of one keyword.
MaxRanked == 2

\* The rankings of the urls of S: each url once, in any order.
Rankings(S) == { q \in [1..Cardinality(S) -> S] : Range(q) = S }

\* What the relevance provider may answer on the cleaned url u, given the
\* prompt of the assessor that its bucket calls.
ResponsesOn(u, known) ==
    LET page_type == classify_url(u, known)
    IN  IF page_type = "Known PLP" THEN FirecrawlResponses(ListingPayloads)
        ELSE IF page_type = "Known PDP" THEN FirecrawlResponses(DetailPayloads)
        ELSE FirecrawlResponses(CombinedPayloads)

\* The maps from the cleaned urls of U to one answer of the provider each.
RECURSIVE ResponseMaps(_, _)
ResponseMaps(U, known) ==
    IF U = {} THEN { EmptyMap }
    ELSE LET u == CHOOSE x \in U : TRUE
         IN  { Put(m, u, r) : m \in ResponseMaps(U \ {u}, known), r \in ResponsesOn(u, known) }

\* The cleaned urls the loops can call an assessor on.
AssessableUrls(S, known) ==
    { clean_url(l) : l \in S } \ ({ NoUrl } \cup { u \in { clean_url(l) : l \in S } :
                                                       classify_url(u, known) = "Irrelevant" })

\* Lines 204-221: the loop over the Known PLP bucket from position i, the
\* provider answering response[url] on url.
RECURSIVE KnownPLPLoop(_, _, _, _, _)
KnownPLPLoop(urls, i, best, called, response) ==
    IF i > Len(urls) THEN [found |-> FALSE, best |-> best, called |-> called]
    ELSE LET result == assess_category_page_relevance(response[urls[i]])
         IN  IF result # << >> /\ result[1].Relevant = "Closely Related"
             THEN [found |-> TRUE, best |-> "Closely Related", called |-> called \cup {urls[i]}]
             ELSE KnownPLPLoop(urls, i + 1, known_plp_best(best, result),
                               called \cup {urls[i]}, response)

\* Lines 237-267: the loop over the Unknown bucket from position i.
RECURSIVE UnknownLoop(_, _, _, _, _, _)
UnknownLoop(urls, i, best, pdp, called, response) ==
    IF i > Len(urls) THEN [found |-> FALSE, best |-> best, pdp |-> pdp, called |-> called]
    ELSE LET result == classify_and_assess_url(response[urls[i]])
             is_plp == result # << >> /\ result[1].determined_type \in {"PLP", "Brand Page"}
             is_pdp == result # << >> /\ result[1].determined_type = "PDP"
         IN  IF is_plp /\ result[1].relevance = "Closely Related"
             THEN [found |-> TRUE, best |-> "Closely Related", pdp |-> pdp,
                   called |-> called \cup {urls[i]}]
             ELSE UnknownLoop(urls, i + 1,
                              IF is_plp THEN unknown_plp_best(best, result[1].relevance)
                              ELSE best,
                              IF is_pdp /\ result[1].relevance = "Related" THEN TRUE ELSE pdp,
                              called \cup {urls[i]}, response)

\* Lines 281-290: the loop over the Known PDP bucket from position i.
RECURSIVE KnownPDPLoop(_, _, _, _, _)
KnownPDPLoop(urls, i, pdp, called, response) ==
    IF i > Len(urls) THEN [pdp |-> pdp, called |-> called]
    ELSE LET result == assess_product_page_relevance(response[urls[i]])
         IN  KnownPDPLoop(urls, i + 1,
                          IF result # << >> /\ result[1].Relevance = "Related" THEN TRUE
                          ELSE pdp,
                          called \cup {urls[i]}, response)

\* Lines 181-312 for one keyword whose 'Ranking URL' column is urls: the
\* Decision, its justification and the urls an assessor was called on.
analyze_ranking(urls, known, response) ==
    LET c  == ClassifyAll(urls, known)
        s3 == KnownPLPLoop(c["Known PLP"], 1, None, {}, response)
        s4 == UnknownLoop(c["Unknown"], 1, s3.best, FALSE, s3.called, response)
        s5 == KnownPDPLoop(c["Known PDP"], 1, s4.pdp, s4.called, response)
        d  == final_decision(s4.best, s5.pdp)
    IN  IF s3.found
        THEN [ Decision |-> "No (Existing page sufficient)",
               Justification |-> "A 'Closely Related' Known PLP was found in SERP.",
               called |-> s3.called ]
        ELSE IF s4.found
        THEN [ Decision |-> "No (Existing page sufficient)",
               Justification |-> "AI identified a 'Closely Related' PLP or Brand Page in SERP.",
               called |-> s4.called ]
        ELSE [ Decision |-> d.Decision, Justification |-> d.Justification,
               called |-> s5.called ]

InitOrd ==
    /\ keywords = <<>>
    /\ known_plps_list = {}
    /\ SERPAPI_API_KEY = TRUE
    /\ FIRECRAWL_API_KEY = TRUE
    /\ organic_left = MaxOrganic
    /\ pc = "off"
    /\ ki = 1
    /\ idx = 1
    /\ keyword_result = NewKeywordResult(None)
    /\ serp_df = <<>>
    /\ classified_urls = [b \in BUCKETS |-> <<>>]
    /\ known_plp_assessments = EmptyMap
    /\ known_pdp_assessments = EmptyMap
    /\ unknown_url_assessments = EmptyMap
    /\ found_closely_related_plp = FALSE
    /\ best_plp_relevance = None
    /\ found_related_pdp = FALSE
    /\ results_list = <<>>
    /\ log = <<>>
    /\ fn_pc = "off"
    /\ fn_url = NoUrl
    /\ fn_known = {}
    /\ fn_best = None
    /\ fn_pdp = FALSE
    /\ fn_cleaned = <<>>
    /\ fn_type = <<>>
    /\ fn_decision = <<>>
    /\ ord_pc = "run"
    /\ ord_urls \in { S \in SUBSET Links : Cardinality(S) \in 1..MaxRanked }
    /\ ord_known \in KnownPlpLists
    /\ ord_response \in ResponseMaps(AssessableUrls(ord_urls, ord_known), ord_known)
    /\ ord_runs = <<>>

\* The keyword is analyzed on one ranking of its urls, twice.
RunRanking ==
    /\ ord_pc = "run"
    /\ \E urls \in Rankings(ord_urls) :
           ord_runs' = Append(ord_runs, analyze_ranking(urls, ord_known, ord_response))
    /\ ord_pc' = IF ord_runs = <<>> THEN "run" ELSE "returned"
    /\ UNCHANGED << pipeline, fn, ord_urls, ord_known, ord_response >>

NextOrd == RunRanking

SpecOrd == InitOrd /\ [][NextOrd]_vars

\* ======================================================================
\* Properties
\* ======================================================================
DECISIONS ==
    { "Yes (Create *new* category)", "Yes (Create *specific* category)",
      "No (Existing page sufficient)", "No (Loose PLP is best for now)",
      "No (No relevant products/pages)", "No (Irrelevant)", "Error" }

ASSESS_EVENTS == { "assess_listing", "assess_unknown", "assess_detail" }

\* The relevance calls made for keyword number k, in order.
AssessEventsOf(k) == SelectSeq(log, LAMBDA e : e.ev \in ASSESS_EVENTS /\ e.kw = k)

\* The searches made for keyword number k.
SearchEventsOf(k) == SelectSeq(log, LAMBDA e : e.ev = "search" /\ e.kw = k)

\* analyze_keywords is over: it returned, or an exception left it.
RunIsOver == pc \in {"done", "raised"}

\* C1: once analyze_keywords has run, results_list holds exactly one record
\* per input keyword, in input order, each with one Decision and a
\* justification, whatever the providers did.
C1_OneRecordPerKeyword ==
    RunIsOver =>
        /\ Len(results_list) = Len(keywords)
        /\ \A i \in 1..Len(results_list) :
              /\ results_list[i].Keyword = keywords[i]
              /\ results_list[i].Decision \in DECISIONS
              /\ results_list[i].Justification # ""

\* C2: a failing search is treated like an empty result list: no exception
\* ends the batch, the keyword searched gets its record with the decision
\* 'No (Irrelevant)', and no relevance call is made for it.
C2_SearchFailureIsEmptyResult ==
    /\ pc # "raised"
    /\ \A k \in 1..Len(keywords) :
          (SearchEventsOf(k) # <<>> /\ (ki > k \/ RunIsOver)) =>
              /\ Len(results_list) >= k
              /\ ~results_list[k].SERP_Results_Found =>
                    /\ results_list[k].Decision = "No (Irrelevant)"
                    /\ AssessEventsOf(k) = <<>>

\* C3: a keyword whose search returned zero ranked URLs has the decision
\* 'No (Irrelevant)' with its fixed justification, and no relevance call was
\* made for it.
C3_ZeroResultsIsNoSearchResults ==
    \A k \in 1..Len(keywords) :
        (\E i \in 1..Len(log) : log[i].ev = "search" /\ log[i].kw = k /\ log[i].n = 0) =>
            /\ Len(results_list) >= k
            /\ results_list[k].Decision = "No (Irrelevant)"
            /\ results_list[k].Justification =
                   "No organic results found for this keyword on the target site."
            /\ AssessEventsOf(k) = <<>>

\* The keyword of index ki is past Classify and has no record yet.
InRun ==
    pc \in {"s3", "s3_l212", "s3_end", "s4", "s4_l251", "s4_end", "s5", "s5_end", "synth"}

Last(q) == q[Len(q)]

\* A Known PLP assessment map holds a Closely Related verdict.
HasClosePLP(m) == \E u \in DOMAIN m : m[u].Relevant = "Closely Related"

\* An Unknown URL assessment map holds a PLP or Brand Page that is Closely
\* Related.
HasCloseAI(m) ==
    \E u \in DOMAIN m :
        /\ m[u].determined_type \in {"PLP", "Brand Page"}
        /\ m[u].relevance = "Closely Related"

\* The last relevance call for keyword number k was of kind e, on a url
\* whose entry in m satisfies Close.
LastCallIsClose(k, e, m, Close(_)) ==
    LET a == AssessEventsOf(k)
    IN  /\ a # <<>>
        /\ Last(a).ev = e
        /\ Last(a).url \in DOMAIN m
        /\ Close(m[Last(a).url])

ClosePLPEntry(x) == x.Relevant = "Closely Related"

CloseAIEntry(x) ==
    x.determined_type \in {"PLP", "Brand Page"} /\ x.relevance = "Closely Related"

\* C4: once a Known PLP is assessed Closely Related, no further relevance
\* call of any kind is made for the keyword, and its decision is
\* 'No (Existing page sufficient)' with the known-listing justification.
C4_KnownListingEarlyExit ==
    /\ (InRun /\ HasClosePLP(known_plp_assessments)) =>
          /\ pc \in {"s3_l212", "s3_end"}
          /\ LastCallIsClose(ki, "assess_listing", known_plp_assessments, ClosePLPEntry)
          /\ unknown_url_assessments = EmptyMap
          /\ known_pdp_assessments = EmptyMap
    /\ \A k \in 1..Len(results_list) :
          HasClosePLP(results_list[k].Known_PLP_Assessment) =>
              /\ results_list[k].Decision = "No (Existing page sufficient)"
              /\ results_list[k].Justification =
                     "A 'Closely Related' Known PLP was found in SERP."
              /\ LastCallIsClose(k, "assess_listing",
                                 results_list[k].Known_PLP_Assessment, ClosePLPEntry)
              /\ \A i \in 1..Len(AssessEventsOf(k)) :
                     AssessEventsOf(k)[i].ev = "assess_listing"
              /\ results_list[k].Unknown_URL_Assessment = EmptyMap
              /\ results_list[k].Known_PDP_Assessment = EmptyMap

\* C4's case: two Known PLPs ranked, the first one Closely Related, the
\* second one never assessed.
C4_Witness ==
    \E k \in 1..Len(results_list) :
        /\ HasClosePLP(results_list[k].Known_PLP_Assessment)
        /\ Len(results_list[k].Initial_Classification["Known PLP"]) = 2
        /\ Cardinality(DOMAIN results_list[k].Known_PLP_Assessment) = 1

\* C5: stage 4 runs only when stage 3 did not end the keyword; the first
\* Unknown URL typed PLP or Brand Page and Closely Related stops the
\* iteration: no later Unknown URL and no Known PDP is assessed, and the
\* decision is 'No (Existing page sufficient)' with the AI justification.
C5_UnknownEarlyExit ==
    /\ pc \in {"s4", "s4_l251", "s4_end", "s5", "s5_end", "synth"} =>
          ~HasClosePLP(known_plp_assessments)
    /\ (InRun /\ HasCloseAI(unknown_url_assessments)) =>
          /\ pc \in {"s4_l251", "s4_end"}
          /\ LastCallIsClose(ki, "assess_unknown", unknown_url_assessments, CloseAIEntry)
          /\ known_pdp_assessments = EmptyMap
    /\ \A k \in 1..Len(results_list) :
          /\ results_list[k].Unknown_URL_Assessment # EmptyMap =>
                ~HasClosePLP(results_list[k].Known_PLP_Assessment)
          /\ HasCloseAI(results_list[k].Unknown_URL_Assessment) =>
                /\ results_list[k].Decision = "No (Existing page sufficient)"
                /\ results_list[k].Justification =
                       "AI identified a 'Closely Related' PLP or Brand Page in SERP."
                /\ LastCallIsClose(k, "assess_unknown",
                                   results_list[k].Unknown_URL_Assessment, CloseAIEntry)
                /\ results_list[k].Known_PDP_Assessment = EmptyMap

\* C5's case: two Unknown URLs ranked, the first one a Closely Related PLP or
\* Brand Page, the second one never assessed.
C5_Witness ==
    \E k \in 1..Len(results_list) :
        /\ HasCloseAI(results_list[k].Unknown_URL_Assessment)
        /\ Len(results_list[k].Initial_Classification["Unknown"]) = 2
        /\ Cardinality(DOMAIN results_list[k].Unknown_URL_Assessment) = 1

\* The decision table of Synthesize, row by row.
TableRow(best, related_pdp, r) ==
    /\ (best = "Loosely Related" /\ related_pdp) =>
          /\ r.Decision = "Yes (Create *specific* category)"
          /\ r.Justification =
                 "Found 'Loosely Related' PLP and 'Related' products/pages, suggesting a more specific category is needed."
    /\ (best = "Loosely Related" /\ ~related_pdp) =>
          /\ r.Decision = "No (Loose PLP is best for now)"
          /\ r.Justification =
                 "Found 'Loosely Related' PLP, but no specific 'Related' products/pages found to justify a new category."
    /\ (best \in {"Unrelated", None} /\ related_pdp) =>
          /\ r.Decision = "Yes (Create *new* category)"
          /\ r.Justification =
                 "No relevant PLP found, but 'Related' products/pages exist, justifying a new category."
    /\ (best \in {"Unrelated", None} /\ ~related_pdp) =>
          /\ r.Decision = "No (No relevant products/pages)"
          /\ r.Justification =
                 "No relevant PLPs or other pages related to the keyword were found."

\* A record with a Known PLP assessed Loosely Related and a Known PDP
\* assessed Related.
LooseListingAndRelatedDetail(r) ==
    /\ \E u \in DOMAIN r.Known_PLP_Assessment :
           r.Known_PLP_Assessment[u].Relevant = "Loosely Related"
    /\ \E u \in DOMAIN r.Known_PDP_Assessment :
           r.Known_PDP_Assessment[u].Relevance = "Related"

\* C6: the step taken from Synthesize appends a record whose decision and
\* justification are the row of the decision table for (best_plp_relevance,
\* found_related_pdp); a record with a Known PLP assessed Loosely Related
\* and a Known PDP assessed Related has 'Yes (Create *specific* category)'.
C6_SynthesizeAppliesTable ==
    /\ [][ pc = "synth" =>
             /\ Len(results_list') = Len(results_list) + 1
             /\ Last(results_list').Keyword = keywords[ki]
             /\ TableRow(best_plp_relevance, found_related_pdp, Last(results_list')) ]_vars
    /\ [](\A k \in 1..Len(results_list) :
             LooseListingAndRelatedDetail(results_list[k]) =>
                 results_list[k].Decision = "Yes (Create *specific* category)")

\* C6's case: the scenario's record has been appended.
C6_Witness ==
    \E k \in 1..Len(results_list) :
        /\ LooseListingAndRelatedDetail(results_list[k])
        /\ results_list[k].Decision = "Yes (Create *specific* category)"

\* C7: Synthesize is reached only without a Closely Related listing verdict:
\* there best_plp_relevance is None, 'Unrelated' or 'Loosely Related', and no
\* appended record has the decision 'Error'.
C7_SynthesizeOnlyWithoutClose ==
    /\ pc = "synth" =>
          /\ best_plp_relevance \in {None, "Unrelated", "Loosely Related"}
          /\ ~found_closely_related_plp
          /\ ~HasClosePLP(known_plp_assessments)
          /\ ~HasCloseAI(unknown_url_assessments)
    /\ \A k \in 1..Len(results_list) : results_list[k].Decision # "Error"

\* C7's case: Synthesize reached after listings were assessed in stages 3
\* and 4.
C7_Witness ==
    /\ pc = "synth"
    /\ known_plp_assessments # EmptyMap
    /\ \E u \in DOMAIN unknown_url_assessments :
           unknown_url_assessments[u].determined_type \in {"PLP", "Brand Page"}

FlagIffBest == found_closely_related_plp <=> (best_plp_relevance = "Closely Related")

\* C8 as stated: after every statement of stages 3, 4 and 5 the flag is up
\* if and only if best_plp_relevance is 'Closely Related'.
C8_FlagIffBestAfterEveryStatement == InRun => FlagIffBest

\* C8, amended: the same except between the two assignments that record a
\* Closely Related verdict (lines 211-212 and lines 250-251).
C8_FlagIffBestBetweenAssessments ==
    (InRun /\ pc \notin {"s3_l212", "s4_l251"}) => FlagIffBest

\* C8's case: a Closely Related verdict has been recorded, in stage 3 or in
\* stage 4, and both assignments have run.
C8_Witness ==
    /\ pc \in {"s3_end", "s4_end"}
    /\ found_closely_related_plp
    /\ best_plp_relevance = "Closely Related"

\* The buckets that hold url.
BucketsOf(url) == { b \in BUCKETS : url \in Range(classified_urls[b]) }

\* No value occurs twice in the sequence q.
NoRepeat(q) == \A i, j \in 1..Len(q) : q[i] = q[j] => i = j

\* C9 as stated: after Classify every ranked URL is, by its normalized form,
\* in exactly one of the four buckets, and no bucket holds a URL twice.
C9_EveryRankedUrlInOneBucket ==
    InRun =>
        /\ \A i \in 1..Len(serp_df) : Cardinality(BucketsOf(clean_url(serp_df[i]))) = 1
        /\ \A b \in BUCKETS : NoRepeat(classified_urls[b])

\* C9, amended: after Classify every ranked URL that normalizes is, by its
\* normalized form, in exactly one bucket, the one classify_url names; a
\* ranked URL that fails normalization is in no bucket; no bucket holds a
\* URL twice, and the buckets hold nothing but normalized ranked URLs.
C9_EveryCleanedUrlInOneBucket ==
    InRun =>
        /\ \A i \in 1..Len(serp_df) :
              LET cleaned == clean_url(serp_df[i])
              IN  IF cleaned = NoUrl
                  THEN BucketsOf(cleaned) = {}
                  ELSE BucketsOf(cleaned) = { classify_url(cleaned, known_plps_list) }
        /\ \A b \in BUCKETS : NoRepeat(classified_urls[b])
        /\ AllClassified(classified_urls) \subseteq { clean_url(serp_df[i]) : i \in 1..Len(serp_df) }

\* C9's case: two different ranked URLs that normalize to the same URL.
C9_Witness ==
    /\ InRun
    /\ \E i, j \in 1..Len(serp_df) :
           /\ serp_df[i] # serp_df[j]
           /\ clean_url(serp_df[i]) = clean_url(serp_df[j])
           /\ clean_url(serp_df[i]) # NoUrl

\* The calls of kind e made for the current keyword on url.
CallsOn(e, url) ==
    Len(SelectSeq(log, LAMBDA x : x.ev = e /\ x.kw = ki /\ x.url = url))

FAILED_PLP == [Relevant |-> "Assessment Failed", Analysis |-> "API call failed."]

FAILED_PDP == [Relevance |-> "Assessment Failed", Analysis |-> "API call failed."]

FAILED_UNKNOWN ==
    [determined_type |-> "Error", relevance |-> "Error", analysis |-> "API call failed."]

\* The provider did not answer with data that has the required fields.
FailedCall(response, fields) ==
    \/ ~FIRECRAWL_API_KEY
    \/ response.kind # "data"
    \/ ~(fields \subseteq DOMAIN response.data)

\* Each url of the map m has had exactly one call of kind e, each url called
\* has its entry, and the entry has the required fields.
OneEntryPerCall(e, m, fields) ==
    /\ \A u \in DOMAIN m : CallsOn(e, u) = 1 /\ fields \subseteq DOMAIN m[u]
    /\ \A i \in 1..Len(log) :
           (log[i].ev = e /\ log[i].kw = ki) => log[i].url \in DOMAIN m

\* C10: a failing relevance call never raises into the pipeline: each
\* assessor returns nothing, the url gets exactly one entry, no call is
\* repeated, and the loop goes on with the next url and the next stages.
C10_RelevanceFailureIsAbsorbed ==
    /\ \A r \in FirecrawlResponses(ListingPayloads) :
           FailedCall(r, {"Relevant", "Analysis"}) => assess_category_page_relevance(r) = << >>
    /\ \A r \in FirecrawlResponses(DetailPayloads) :
           FailedCall(r, {"Relevance", "Analysis"}) => assess_product_page_relevance(r) = << >>
    /\ \A r \in FirecrawlResponses(CombinedPayloads) :
           FailedCall(r, {"determined_type", "relevance", "analysis"}) =>
               classify_and_assess_url(r) = << >>
    /\ pc = "raised" => (Last(log).ev = "search" /\ AssessEventsOf(ki) = <<>>)
    /\ InRun =>
          /\ OneEntryPerCall("assess_listing", known_plp_assessments, {"Relevant", "Analysis"})
          /\ OneEntryPerCall("assess_unknown", unknown_url_assessments,
                             {"determined_type", "relevance", "analysis"})
          /\ OneEntryPerCall("assess_detail", known_pdp_assessments, {"Relevance", "Analysis"})
          /\ pc = "s3" => DOMAIN known_plp_assessments =
                              Range(SubSeq(classified_urls["Known PLP"], 1, idx - 1))
          /\ pc = "s4" => DOMAIN unknown_url_assessments =
                              Range(SubSeq(classified_urls["Unknown"], 1, idx - 1))
          /\ pc = "s5" => DOMAIN known_pdp_assessments =
                              Range(SubSeq(classified_urls["Known PDP"], 1, idx - 1))
          /\ pc = "synth" =>
                /\ DOMAIN known_plp_assessments = Range(classified_urls["Known PLP"])
                /\ DOMAIN unknown_url_assessments = Range(classified_urls["Unknown"])
                /\ DOMAIN known_pdp_assessments = Range(classified_urls["Known PDP"])

\* C10's case: a Known PLP call failed, the run went on, a later call failed
\* too, and Synthesize is reached.
C10_Witness ==
    /\ pc = "synth"
    /\ \E u \in DOMAIN known_plp_assessments : known_plp_assessments[u] = FAILED_PLP
    /\ \/ \E u \in DOMAIN known_pdp_assessments : known_pdp_assessments[u] = FAILED_PDP
       \/ \E u \in DOMAIN unknown_url_assessments : unknown_url_assessments[u] = FAILED_UNKNOWN

ALLOWED_TYPES == {"PLP", "PDP", "Brand Page", "Article", "Other"}

ALLOWED_RELEVANCE == {"Closely Related", "Loosely Related", "Unrelated", "Related", "N/A"}

\* Every entry of the three assessment maps is the entry of a failed call or
\* carries a verdict of its assessor's allowed value set.
OnlyAllowedVerdicts(plp, unknown, pdp) ==
    /\ \A u \in DOMAIN plp : plp[u] = FAILED_PLP \/ plp[u].Relevant \in LISTING_SCALE
    /\ \A u \in DOMAIN pdp : pdp[u] = FAILED_PDP \/ pdp[u].Relevance \in DETAIL_SCALE
    /\ \A u \in DOMAIN unknown :
           \/ unknown[u] = FAILED_UNKNOWN
           \/ /\ unknown[u].determined_type \in ALLOWED_TYPES
              /\ unknown[u].relevance \in ALLOWED_RELEVANCE

\* C11: a payload whose verdict is outside the assessor's allowed value set
\* is treated as a failed assessment: no assessment map, of the running
\* keyword or of an appended record, holds such a verdict as a successful
\* assessment.
C11_OnlyAllowedVerdictsRecorded ==
    /\ OnlyAllowedVerdicts(known_plp_assessments, unknown_url_assessments,
                           known_pdp_assessments)
    /\ \A k \in 1..Len(results_list) :
           OnlyAllowedVerdicts(results_list[k].Known_PLP_Assessment,
                               results_list[k].Unknown_URL_Assessment,
                               results_list[k].Known_PDP_Assessment)

\* Keyword number k had relevance calls, and each of them failed.
EveryCallFailed(k) ==
    /\ AssessEventsOf(k) # <<>>
    /\ \A i \in 1..Len(AssessEventsOf(k)) : AssessEventsOf(k)[i].n = 1

\* Every entry of the three assessment maps is the entry of a failed call.
AllMarkedFailed(plp, unknown, pdp) ==
    /\ \A u \in DOMAIN plp : plp[u] = FAILED_PLP
    /\ \A u \in DOMAIN unknown : unknown[u] = FAILED_UNKNOWN
    /\ \A u \in DOMAIN pdp : pdp[u] = FAILED_PDP

\* The record of keyword number k, all of whose calls failed: the decision
\* 'No (No relevant products/pages)', every entry marked failed, and an
\* entry for every url of the three assessed buckets.
FailedRecord(k) ==
    LET r == results_list[k]
    IN  /\ r.Decision = "No (No relevant products/pages)"
        /\ r.Justification = "No relevant PLPs or other pages related to the keyword were found."
        /\ AllMarkedFailed(r.Known_PLP_Assessment, r.Unknown_URL_Assessment,
                           r.Known_PDP_Assessment)
        /\ DOMAIN r.Known_PLP_Assessment = Range(r.Initial_Classification["Known PLP"])
        /\ DOMAIN r.Unknown_URL_Assessment = Range(r.Initial_Classification["Unknown"])
        /\ DOMAIN r.Known_PDP_Assessment = Range(r.Initial_Classification["Known PDP"])

\* C12 as stated: when every relevance call of the keyword failed, Synthesize
\* is reached with best_plp_relevance = None and found_related_pdp = FALSE,
\* the decision is 'No (No relevant products/pages)' and every entry is
\* marked failed.
C12_AllFailedLeavesNoEvidence ==
    /\ (pc = "synth" /\ EveryCallFailed(ki)) =>
          /\ best_plp_relevance = None
          /\ ~found_related_pdp
          /\ AllMarkedFailed(known_plp_assessments, unknown_url_assessments,
                             known_pdp_assessments)
    /\ \A k \in 1..Len(results_list) : EveryCallFailed(k) => FailedRecord(k)

\* C12, amended: the same, except that best_plp_relevance is 'Unrelated'
\* when the keyword has a Known PLP (line 221 floors it on the failed call)
\* and None only when it has none.
C12_AllFailedFloorsAtUnrelated ==
    /\ (InRun /\ EveryCallFailed(ki)) =>
          /\ pc \notin {"s3_l212", "s4_l251"}
          /\ ~found_closely_related_plp
          /\ ~found_related_pdp
          /\ AllMarkedFailed(known_plp_assessments, unknown_url_assessments,
                             known_pdp_assessments)
    /\ (pc = "synth" /\ EveryCallFailed(ki)) =>
          best_plp_relevance =
              IF classified_urls["Known PLP"] # <<>> THEN "Unrelated" ELSE None
    /\ \A k \in 1..Len(results_list) : EveryCallFailed(k) => FailedRecord(k)

\* C12's case: Synthesize is reached after a failed Known PLP call and a
\* failed call of another stage.
C12_Witness ==
    /\ pc = "synth"
    /\ EveryCallFailed(ki)
    /\ Len(AssessEventsOf(ki)) = 2
    /\ AssessEventsOf(ki)[1].ev = "assess_listing"
    /\ AssessEventsOf(ki)[2].ev # "assess_listing"

\* The relevance calls of kind e made for keyword number k.
CallsOfKind(e, k) == SelectSeq(log, LAMBDA x : x.ev = e /\ x.kw = k)

\* The map m holds an entry for exactly the urls called with kind e for
\* keyword number k; the entry of a call that returned None is failed, and
\* no other entry is.
ExactTrail(e, k, m, failed) ==
    LET calls == CallsOfKind(e, k)
    IN  /\ DOMAIN m = { calls[i].url : i \in 1..Len(calls) }
        /\ \A i \in 1..Len(calls) : (calls[i].n = 1) <=> (m[calls[i].url] = failed)

\* C13: on every exit path the appended record's three assessment maps hold
\* an entry for exactly the urls a relevance call was made on in that
\* stage, the url of the Closely Related verdict and the failed calls
\* included; a record appended without a call has empty maps.
C13_AuditTrailIsExact ==
    \A k \in 1..Len(results_list) :
        /\ ExactTrail("assess_listing", k, results_list[k].Known_PLP_Assessment, FAILED_PLP)
        /\ ExactTrail("assess_unknown", k, results_list[k].Unknown_URL_Assessment,
                      FAILED_UNKNOWN)
        /\ ExactTrail("assess_detail", k, results_list[k].Known_PDP_Assessment, FAILED_PDP)

\* C13's case: a record appended by the early exit of stage 4, after a
\* failed call and a Closely Related one, and a second record appended that
\* made no call at all.
C13_Witness ==
    /\ Len(results_list) = 2
    /\ results_list[1].Decision = "No (Existing page sufficient)"
    /\ HasCloseAI(results_list[1].Unknown_URL_Assessment)
    /\ \E u \in DOMAIN results_list[1].Unknown_URL_Assessment :
           results_list[1].Unknown_URL_Assessment[u] = FAILED_UNKNOWN
    /\ results_list[2].Decision = "No (Irrelevant)"

\* The url is the homepage: 'https://www.SITE/' or 'https://www.SITE', with
\* or without a query and a fragment.
IsSiteRoot(u) ==
    /\ u # NoUrl /\ ~u.malformed
    /\ u.scheme = "https" /\ u.netloc = WWW_SITE /\ u.path \in { <<>>, <<"/">> }

\* The three rules of the classification, on the normalized url.
IrrelevantRule(u) ==
    LET c == clean_url(u)
        irr == Range(KNOWN_IRRELEVANT_PATHS)
    IN  \/ IsSiteRoot(u)
        \/ /\ c # NoUrl
           /\ \/ \E p \in irr \ {TARGET_SITE_URL_BASE} : StartsWith(c, p) /\ Longer(c, p)
              \/ \E p \in irr : c = p

KnownListingRule(u, known) ==
    LET c == clean_url(u)
    IN  /\ c # NoUrl
        /\ \/ c \in known
           \/ /\ \E p \in Range(KNOWN_PLP_PATHS) : StartsWith(c, p)
              /\ ~(Contains(c, "collections") /\ Contains(c, "products"))

KnownDetailRule(u) ==
    LET c == clean_url(u)
    IN  /\ c # NoUrl
        /\ \/ \E p \in Range(KNOWN_PDP_PATHS) : StartsWith(c, p)
           \/ Contains(c, "products")

\* First match wins, in the order Irrelevant, Known PLP, Known PDP, Unknown.
FirstMatch(u, known) ==
    IF IrrelevantRule(u) THEN "Irrelevant"
    ELSE IF KnownListingRule(u, known) THEN "Known PLP"
    ELSE IF KnownDetailRule(u) THEN "Known PDP"
    ELSE "Unknown"

\* C14: classify_url answers one of the four buckets for every url, and the
\* bucket is the first rule the url satisfies in the order Irrelevant,
\* Known PLP, Known PDP, Unknown, whatever later rules it also satisfies.
C14_FirstMatchWins ==
    fn_type # <<>> =>
        /\ fn_type[1] \in BUCKETS
        /\ fn_type[1] = FirstMatch(fn_url, fn_known)

\* The search of the keyword last fetched returned nothing but the homepage.
OnlyHomepageRanked == serp_df # <<>> /\ \A i \in 1..Len(serp_df) : serp_df[i] = L_home

\* C15: a ranked homepage is put in the Irrelevant bucket, so a keyword whose
\* search returns only the homepage has no relevance call made, gathers no
\* evidence, and gets the decision 'No (No relevant products/pages)'.
C15_HomepageIsIrrelevant ==
    /\ (InRun /\ OnlyHomepageRanked) =>
          /\ classified_urls["Irrelevant"] = << clean_url(L_home) >>
          /\ AssessEventsOf(ki) = <<>>
          /\ pc = "synth"
          /\ best_plp_relevance = None /\ ~found_related_pdp
    /\ (pc \in {"fetch", "done"} /\ ki > 1 /\ OnlyHomepageRanked) =>
          /\ AssessEventsOf(ki - 1) = <<>>
          /\ results_list[ki - 1].Decision = "No (No relevant products/pages)"

\* The normalized url c is under a configured listing path and holds both a
\* '/collections/' and a '/products/' segment.
NestedDetail(c) ==
    /\ c # NoUrl
    /\ \E p \in Range(KNOWN_PLP_PATHS) : StartsWith(c, p)
    /\ Contains(c, "collections") /\ Contains(c, "products")

\* C16: a url under a listing path that holds both a '/collections/' and a
\* '/products/' segment is Known PLP only by exact membership in the
\* known-listing set and is otherwise Known PDP; any url with a '/products/'
\* segment that is neither Irrelevant nor Known PLP is Known PDP.
C16_NestedProductIsDetail ==
    \A i \in 1..Len(fn_type) :
        LET c == clean_url(fn_url)
            t == fn_type[i]
        IN  /\ NestedDetail(c) =>
                  /\ t = "Known PLP" => c \in fn_known
                  /\ (t # "Irrelevant" /\ c \notin fn_known) => t = "Known PDP"
            /\ (c # NoUrl /\ Contains(c, "products") /\ t \notin {"Irrelevant", "Known PLP"}) =>
                  t = "Known PDP"

\* C16's case: a url under /collections with a /products/ segment, ranked
\* with a query and a fragment, has been classified Known PDP.
C16_Witness ==
    /\ Len(fn_type) = 3
    /\ NestedDetail(clean_url(fn_url))
    /\ fn_url.query # ""
    /\ clean_url(fn_url) \notin fn_known
    /\ fn_type = << "Known PDP", "Known PDP", "Known PDP" >>

\* The bucket whose urls the assessor behind the event e is called on.
BucketOfCall(e) ==
    CASE e = "assess_listing" -> "Known PLP"
      [] e = "assess_unknown" -> "Unknown"
      [] e = "assess_detail"  -> "Known PDP"

\* The buckets of keyword number k: those of its record once appended, and
\* the current ones before.
BucketsOfKeyword(k) ==
    IF k <= Len(results_list) THEN results_list[k].Initial_Classification
    ELSE classified_urls

\* C17: every relevance call is made on a normalized url of the Known PLP,
\* Unknown or Known PDP bucket of its keyword, with the assessor of that
\* bucket; none is made on a url of the Irrelevant bucket, nor for a ranked
\* url that does not normalize.
C17_CallsOnlyOnAssessableBuckets ==
    /\ \A i \in 1..Len(log) :
           log[i].ev \in ASSESS_EVENTS =>
               LET c == BucketsOfKeyword(log[i].kw)
               IN  /\ log[i].url # NoUrl
                   /\ ~log[i].url.malformed
                   /\ clean_url(log[i].url) = log[i].url
                   /\ log[i].url \in Range(c[BucketOfCall(log[i].ev)])
                   /\ log[i].url \notin Range(c["Irrelevant"])
    /\ InRun =>
           \A j \in 1..Len(serp_df) :
               clean_url(serp_df[j]) = NoUrl =>
                   /\ NoUrl \notin AllClassified(classified_urls)
                   /\ Len(AssessEventsOf(ki)) <=
                          Cardinality({ clean_url(serp_df[m]) : m \in 1..Len(serp_df) } \ {NoUrl})

\* C17's case: the search ranked a link that does not normalize and a page
\* under /articles/, stages 3 to 5 have run, and no call was made.
C17_Witness ==
    /\ pc = "synth"
    /\ serp_df = << L_bad, L_article >>
    /\ classified_urls["Irrelevant"] # <<>>
    /\ AssessEventsOf(ki) = <<>>

\* The log entry is a call of an external provider.
IsCall(x) == x.ev = "search" \/ x.ev \in ASSESS_EVENTS

\* C18: a pause lies between any two consecutive provider calls: the log
\* starts with the first keyword's search, and every later call comes right
\* after a pause (a relevance call after the pause between url assessments,
\* a search after the pause between keywords); each appended record is
\* followed at once by the pause between keywords, on every exit path, and
\* the next keyword's search comes only after it.
C18_PausesSeparateCalls ==
    /\ \A i \in 1..Len(log) :
           /\ IsCall(log[i]) =>
                  \/ i = 1 /\ log[i].ev = "search" /\ log[i].kw = 1
                  \/ i > 1 /\ log[i - 1].ev = "sleep" /\ log[i - 1].n > 0
           /\ log[i].ev \in ASSESS_EVENTS => (i > 1 /\ log[i - 1] = SleepUrl(log[i].kw))
           /\ log[i].ev = "append" => (i < Len(log) /\ log[i + 1] = SleepKeyword(log[i].kw))
           /\ (log[i].ev = "search" /\ log[i].kw > 1) =>
                  /\ i > 2
                  /\ log[i - 1] = SleepKeyword(log[i].kw - 1)
                  /\ log[i - 2].ev = "append" /\ log[i - 2].kw = log[i].kw - 1
    /\ \A k \in 1..Len(results_list) :
           \E i \in 1..Len(log) : log[i].ev = "append" /\ log[i].kw = k

\* C18's case: a first keyword ended by the early exit of stage 3 and a
\* second one by Synthesize after a relevance call; both records are
\* appended.
C18_Witness ==
    /\ pc = "done"
    /\ Len(results_list) = 2
    /\ results_list[1].Justification = "A 'Closely Related' Known PLP was found in SERP."
    /\ AssessEventsOf(2) # <<>>
    /\ results_list[2].Decision \notin {"No (Existing page sufficient)", "No (Irrelevant)"}

\* C19: clean_url gives back its own output unchanged; classify_url answers
\* the same bucket for a url and for its cleaned form, and the same bucket
\* when the same url is classified again; the final decision logic gives the
\* same decision and justification when applied again to the same
\* (best_plp_relevance, found_related_pdp).
C19_ClassifyAndSynthesizeIdempotent ==
    /\ Len(fn_cleaned) = 2 => fn_cleaned[2] = fn_cleaned[1]
    /\ Len(fn_type) >= 2 => fn_type[2] = fn_type[1]
    /\ Len(fn_type) = 3 => fn_type[3] = fn_type[2]
    /\ Len(fn_decision) = 2 => fn_decision[2] = fn_decision[1]

\* C19's case: all the calls have returned for a url without scheme and
\* host, with a relative path, a query and a fragment, which clean_url
\* rewrote.
C19_Witness ==
    /\ fn_pc = "returned"
    /\ fn_url # NoUrl /\ ~fn_url.malformed
    /\ fn_url.scheme = "" /\ fn_url.netloc = "" /\ fn_url.query # ""
    /\ fn_url.path # <<>> /\ fn_url.path[1] # "/"
    /\ fn_cleaned[1] # fn_url
    /\ fn_type[1] # "Unknown"

\* C20: an appended record is never modified: every step leaves the records
\* already in results_list as they are and at most appends one, which is
\* keyword_result as that step leaves it; the next write to keyword_result
\* is the new dict of the next keyword; and the lists and dicts a record
\* shares with the local variables (the buckets and the three assessment
\* maps) are written only after Classify has rebound those variables for
\* the keyword being processed.
C20_AppendedRecordsAreFinal ==
    [][ /\ Len(results_list') >= Len(results_list)
        /\ \A k \in 1..Len(results_list) : results_list'[k] = results_list[k]
        /\ results_list' # results_list =>
               /\ Len(results_list') = Len(results_list) + 1
               /\ Last(results_list') = keyword_result'
               /\ pc' = "fetch"
        /\ (pc = "fetch" /\ keyword_result' # keyword_result) =>
               /\ keyword_result'.Keyword = keywords[ki]
               /\ keyword_result'.Initial_Classification = EmptyMap
               /\ keyword_result'.Known_PLP_Assessment = EmptyMap
               /\ keyword_result'.Unknown_URL_Assessment = EmptyMap
               /\ keyword_result'.Known_PDP_Assessment = EmptyMap
        /\ classified_urls' # classified_urls => pc = "classify"
        /\ known_plp_assessments' # known_plp_assessments =>
               \/ pc = "classify" /\ known_plp_assessments' = EmptyMap
               \/ pc = "s3"
        /\ unknown_url_assessments' # unknown_url_assessments =>
               \/ pc = "classify" /\ unknown_url_assessments' = EmptyMap
               \/ pc = "s4"
        /\ known_pdp_assessments' # known_pdp_assessments =>
               \/ pc = "classify" /\ known_pdp_assessments' = EmptyMap
               \/ pc = "s5"
      ]_vars

\* C20's case: a first record with assessments was appended, and a second
\* keyword with other assessments and another decision was processed to its
\* end after it.
C20_Witness ==
    /\ pc = "done"
    /\ Len(results_list) = 2
    /\ results_list[1].Known_PLP_Assessment # EmptyMap
    /\ results_list[2].Known_PDP_Assessment # EmptyMap
    /\ results_list[1].Decision # results_list[2].Decision

RECORD_FIELDS ==
    { "Keyword", "SERP_Results_Found", "Initial_Classification", "Known_PLP_Assessment",
      "Known_PDP_Assessment", "Unknown_URL_Assessment", "Decision", "Justification",
      "SERP_Raw_HTML_URL" }

\* The record r has the nine fields, each with a value of its kind: the
\* classification is the empty dict (no search results) or has the four
\* buckets, the raw HTML reference is None or a reference, and the map of a
\* stage whose bucket is empty is the empty dict.
WellFormedRecord(r) ==
    /\ DOMAIN r = RECORD_FIELDS
    /\ r.Keyword \in Range(keywords)
    /\ r.SERP_Results_Found \in BOOLEAN
    /\ r.Decision \in DECISIONS
    /\ r.Justification # ""
    /\ r.SERP_Raw_HTML_URL \in RawHtmlRefs \cup {None}
    /\ IF r.SERP_Results_Found
       THEN /\ DOMAIN r.Initial_Classification = BUCKETS
            /\ r.Initial_Classification["Known PLP"] = <<>> => r.Known_PLP_Assessment = EmptyMap
            /\ r.Initial_Classification["Unknown"] = <<>> => r.Unknown_URL_Assessment = EmptyMap
            /\ r.Initial_Classification["Known PDP"] = <<>> => r.Known_PDP_Assessment = EmptyMap
       ELSE /\ r.Initial_Classification = EmptyMap
            /\ r.Known_PLP_Assessment = EmptyMap
            /\ r.Unknown_URL_Assessment = EmptyMap
            /\ r.Known_PDP_Assessment = EmptyMap

\* C21: every record of results_list, whatever path appended it, has all nine
\* fields, with the empty dict or None where a stage did not run.
C21_RecordsHaveAllFields ==
    \A k \in 1..Len(results_list) : WellFormedRecord(results_list[k])

\* C21's case: a record appended for a search without results, and one
\* appended by the early exit of stage 3, whose later stages did not run
\* although the Unknown bucket had a url.
C21_Witness ==
    /\ Len(results_list) = 2
    /\ ~results_list[1].SERP_Results_Found
    /\ results_list[2].Justification = "A 'Closely Related' Known PLP was found in SERP."
    /\ results_list[2].Initial_Classification["Unknown"] # <<>>
    /\ results_list[2].Unknown_URL_Assessment = EmptyMap

\* The order absent < Unrelated < Loosely Related < Closely Related.
RankOf(best) ==
    CASE best = None              -> 0
      [] best = "Unrelated"       -> 1
      [] best = "Loosely Related" -> 2
      [] best = "Closely Related" -> 3

\* The maximum of the Known PLP results recorded in m, on that order: a
\* failed call, and a verdict other than Closely or Loosely Related, count as
\* Unrelated.
MaxKnownListing(m) ==
    IF m = EmptyMap THEN None
    ELSE IF \E u \in DOMAIN m : m[u].Relevant = "Closely Related" THEN "Closely Related"
    ELSE IF \E u \in DOMAIN m : m[u].Relevant = "Loosely Related" THEN "Loosely Related"
    ELSE "Unrelated"

\* C22: within a keyword run best_plp_relevance never goes down on the order
\* absent < Unrelated < Loosely Related < Closely Related, and
\* found_related_pdp never goes back to FALSE; after each iteration of stage
\* 3 best_plp_relevance is the maximum of the Known PLP results so far, a
\* failed call counting as Unrelated.
C22_BestNeverDecreases ==
    /\ [][ (InRun /\ pc' # "fetch") =>
               /\ RankOf(best_plp_relevance') >= RankOf(best_plp_relevance)
               /\ found_related_pdp => found_related_pdp'
               /\ found_closely_related_plp => found_closely_related_plp' ]_vars
    /\ [](pc \in {"s3", "s3_end"} =>
              best_plp_relevance = MaxKnownListing(known_plp_assessments))

\* C22's case: a Known PLP was assessed Loosely Related, and stage 4 then
\* typed an Unknown url PLP or Brand Page with a lower verdict or none.
C22_Witness ==
    /\ pc = "s4_end"
    /\ best_plp_relevance = "Loosely Related"
    /\ \E u \in DOMAIN known_plp_assessments :
           known_plp_assessments[u].Relevant = "Loosely Related"
    /\ \E u \in DOMAIN unknown_url_assessments :
           /\ unknown_url_assessments[u].determined_type = "PLP"
           /\ unknown_url_assessments[u].relevance = "Unrelated"

\* C23: in stage 4 a result typed Article or Other, and a failed call, leave
\* best_plp_relevance and the two flags as they were; a result typed PDP
\* leaves best_plp_relevance and found_closely_related_plp as they were and
\* raises found_related_pdp exactly when its relevance is 'Related'; in all
\* these cases the loop goes on with the next Unknown url.
C23_OnlyListingsMoveBest ==
    [][ (pc = "s4" /\ unknown_url_assessments' # unknown_url_assessments) =>
            LET url == classified_urls["Unknown"][idx]
                e == unknown_url_assessments'[url]
                goes_on == /\ idx' = idx + 1
                           /\ pc' = IF idx = Len(classified_urls["Unknown"])
                                    THEN "s4_end" ELSE "s4"
            IN  /\ (e = FAILED_UNKNOWN \/ e.determined_type \in {"Article", "Other"}) =>
                       /\ evidence' = evidence
                       /\ goes_on
                /\ e.determined_type = "PDP" =>
                       /\ best_plp_relevance' = best_plp_relevance
                       /\ found_closely_related_plp' = found_closely_related_plp
                       /\ found_related_pdp' = (found_related_pdp \/ e.relevance = "Related")
                       /\ goes_on ]_vars

\* C23's case: stage 4 typed a first Unknown url PDP and Related, went on,
\* and typed the second one Other with the relevance 'Closely Related',
\* which left the evidence alone.
C23_Witness ==
    /\ pc = "s4_end"
    /\ Len(classified_urls["Unknown"]) = 2
    /\ unknown_url_assessments[classified_urls["Unknown"][1]].determined_type = "PDP"
    /\ unknown_url_assessments[classified_urls["Unknown"][1]].relevance = "Related"
    /\ unknown_url_assessments[classified_urls["Unknown"][2]].determined_type = "Other"
    /\ unknown_url_assessments[classified_urls["Unknown"][2]].relevance = "Closely Related"
    /\ found_related_pdp /\ ~found_closely_related_plp /\ best_plp_relevance = None

\* Some Unknown url was typed PDP and Related, or some Known PDP was assessed
\* Related.
SomeDetailRelated(unknown, pdp) ==
    \/ \E u \in DOMAIN unknown :
           unknown[u].determined_type = "PDP" /\ unknown[u].relevance = "Related"
    \/ \E u \in DOMAIN pdp : pdp[u].Relevance = "Related"

\* A step of stage 5: the evidence of the listings is left alone, and an
\* iteration records the url at idx and moves to the next one, the last one
\* ending the loop.
DetailStageStep ==
    pc \in {"s5", "s5_end"} =>
        /\ best_plp_relevance' = best_plp_relevance
        /\ found_closely_related_plp' = found_closely_related_plp
        /\ (pc = "s5" =>
               /\ classified_urls["Known PDP"][idx] \in DOMAIN known_pdp_assessments'
               /\ idx' = idx + 1
               /\ pc' = (IF idx = Len(classified_urls["Known PDP"])
                         THEN "s5_end" ELSE "s5"))

\* C24: stage 5 runs only without a Closely Related listing, assesses every
\* url of the Known PDP bucket, also after a Related one, and leaves
\* best_plp_relevance alone; at Synthesize found_related_pdp is TRUE exactly
\* when an Unknown url was typed PDP and Related or a Known PDP was assessed
\* Related.
C24_DetailStageIsExhaustive ==
    /\ [][DetailStageStep]_vars
    /\ [](pc \in {"s5", "s5_end"} =>
              /\ ~found_closely_related_plp
              /\ best_plp_relevance # "Closely Related"
              /\ ~HasClosePLP(known_plp_assessments)
              /\ ~HasCloseAI(unknown_url_assessments))
    /\ [](pc = "synth" =>
              /\ DOMAIN known_pdp_assessments = Range(classified_urls["Known PDP"])
              /\ (found_related_pdp <=>
                     SomeDetailRelated(unknown_url_assessments, known_pdp_assessments)))

\* C24's case: two Known PDPs, the first one Related, the second one
\* assessed all the same, and Synthesize is reached.
C24_Witness ==
    /\ pc = "synth"
    /\ Len(classified_urls["Known PDP"]) = 2
    /\ known_pdp_assessments[classified_urls["Known PDP"][1]].Relevance = "Related"
    /\ known_pdp_assessments[classified_urls["Known PDP"][2]].Relevance = "Unrelated"
    /\ found_related_pdp

\* The rank of the normalized url u: the first row of serp_df that
\* normalizes to it.
FirstRank(u) ==
    CHOOSE i \in 1..Len(serp_df) :
        /\ clean_url(serp_df[i]) = u
        /\ \A j \in 1..(i - 1) : clean_url(serp_df[j]) # u

\* The bucket lists ranked urls, each once, in ranking order.
InRankingOrder(bucket) ==
    \A i, j \in 1..Len(bucket) :
        /\ \E r \in 1..Len(serp_df) : clean_url(serp_df[r]) = bucket[i]
        /\ i < j => FirstRank(bucket[i]) < FirstRank(bucket[j])

\* The relevance calls of the kinds that come after kind e in a keyword.
LaterKinds(e) ==
    CASE e = "assess_listing" -> { "assess_unknown", "assess_detail" }
      [] e = "assess_unknown" -> { "assess_detail" }
      [] e = "assess_detail"  -> { }

\* The call x, made in this step, is in its place: it is for the current
\* keyword, whose record is the next one to append; a search is the
\* keyword's first call; a relevance call follows the keyword's one search,
\* is on the next url of its bucket after the calls already made of its
\* kind, which were on the urls before it, in order, and no call of a later
\* kind nor any call on the same url was made for the keyword.
CallInPlace(x) ==
    /\ x.kw = ki
    /\ Len(results_list) = ki - 1
    /\ \A j \in 1..Len(log) : log[j].kw <= ki
    /\ x.ev = "search" =>
           \A j \in 1..Len(log) : IsCall(log[j]) => log[j].kw < ki
    /\ x.ev \in ASSESS_EVENTS =>
           LET bucket == classified_urls[BucketOfCall(x.ev)]
               before == CallsOfKind(x.ev, ki)
           IN  /\ Len(SearchEventsOf(ki)) = 1
               /\ InRankingOrder(bucket)
               /\ Len(before) < Len(bucket)
               /\ x.url = bucket[Len(before) + 1]
               /\ \A j \in 1..Len(before) : before[j].url = bucket[j]
               /\ \A e \in LaterKinds(x.ev) : CallsOfKind(e, ki) = << >>
               /\ \A j \in 1..Len(log) :
                      (log[j].ev \in ASSESS_EVENTS /\ log[j].kw = ki) => log[j].url # x.url

\* C25: within a keyword the search comes first, then the Known PLP calls,
\* then the Unknown calls, then the Known PDP calls, each group in ranking
\* order, one call at most per url; no call is made for a keyword before the
\* record of the keyword before it is appended.
C25_CallsInOrder ==
    [][ /\ Len(log') >= Len(log)
        /\ SubSeq(log', 1, Len(log)) = log
        /\ \A i \in (Len(log) + 1)..Len(log') : IsCall(log'[i]) => CallInPlace(log'[i])
      ]_vars

\* C25's case: the first keyword had a Known PLP call and then a Known PDP
\* call, its record was appended, and the second keyword was searched.
C25_Witness ==
    /\ Len(results_list) >= 1
    /\ \E i, j, k \in 1..Len(log) :
        /\ i < j /\ j < k
        /\ log[i].ev = "assess_listing" /\ log[i].kw = 1
        /\ log[j].ev = "assess_detail" /\ log[j].kw = 1
        /\ log[k].ev = "search" /\ log[k].kw = 2

\* The provider's verdict on the listing u, were it called: that of the
\* Known PLP prompt on a Known PLP, that of the combined prompt, for a page
\* typed PLP or Brand Page, on an Unknown url; None without one.
ListingVerdict(u) ==
    LET page_type == classify_url(u, ord_known)
        plp == assess_category_page_relevance(ord_response[u])
        ai  == classify_and_assess_url(ord_response[u])
    IN  IF page_type = "Known PLP"
        THEN (IF plp # << >> THEN plp[1].Relevant ELSE None)
        ELSE IF page_type = "Unknown" /\ ai # << >>
                  /\ ai[1].determined_type \in {"PLP", "Brand Page"}
        THEN ai[1].relevance
        ELSE None

\* The provider's verdict on the product page u, likewise.
DetailVerdict(u) ==
    LET page_type == classify_url(u, ord_known)
        pdp == assess_product_page_relevance(ord_response[u])
        ai  == classify_and_assess_url(ord_response[u])
    IN  IF page_type = "Known PDP"
        THEN (IF pdp # << >> THEN pdp[1].Relevance ELSE None)
        ELSE IF page_type = "Unknown" /\ ai # << >> /\ ai[1].determined_type = "PDP"
        THEN ai[1].relevance
        ELSE None

\* The Decision as a function of the set of urls and of the verdicts.
DecisionOfSet ==
    LET U == DOMAIN ord_response
    IN  IF \E u \in U : ListingVerdict(u) = "Closely Related"
        THEN "No (Existing page sufficient)"
        ELSE final_decision(
                 IF \E u \in U : ListingVerdict(u) = "Loosely Related"
                 THEN "Loosely Related" ELSE "Unrelated",
                 \E u \in U : DetailVerdict(u) = "Related").Decision

\* C26: for a fixed set of ranked urls and a fixed answer of the provider
\* on each url, every ranking of the urls gives the same Decision and the
\* same justification: the Decision is 'No (Existing page sufficient)' when
\* a listing's verdict is Closely Related, and else the decision table on
\* the best listing verdict and on whether a detail verdict is Related; only
\* the urls called may differ.
C26_DecisionIgnoresRanking ==
    \A i \in 1..Len(ord_runs) :
        /\ ord_runs[i].Decision = DecisionOfSet
        /\ ord_runs[i].Justification = ord_runs[1].Justification
        /\ ord_runs[i].called \subseteq DOMAIN ord_response

\* C26's case: two runs on rankings of the same urls and answers called
\* different urls, and one of them called two.
C26_Witness ==
    /\ Len(ord_runs) = 2
    /\ ord_runs[1].called # ord_runs[2].called
    /\ Cardinality(ord_runs[2].called) = 2

\* The best listing verdict the record r holds, Closely Related aside.
BestOfTrail(r) ==
    IF \/ \E u \in DOMAIN r.Known_PLP_Assessment :
              r.Known_PLP_Assessment[u].Relevant = "Loosely Related"
       \/ \E u \in DOMAIN r.Unknown_URL_Assessment :
              /\ r.Unknown_URL_Assessment[u].determined_type \in {"PLP", "Brand Page"}
              /\ r.Unknown_URL_Assessment[u].relevance = "Loosely Related"
    THEN "Loosely Related"
    ELSE "Unrelated"

\* The Decision and the justification that the record r's own assessments
\* give.
DecisionOfTrail(r) ==
    IF HasClosePLP(r.Known_PLP_Assessment)
    THEN [ Decision |-> "No (Existing page sufficient)",
           Justification |-> "A 'Closely Related' Known PLP was found in SERP." ]
    ELSE IF HasCloseAI(r.Unknown_URL_Assessment)
    THEN [ Decision |-> "No (Existing page sufficient)",
           Justification |-> "AI identified a 'Closely Related' PLP or Brand Page in SERP." ]
    ELSE final_decision(BestOfTrail(r),
                        SomeDetailRelated(r.Unknown_URL_Assessment, r.Known_PDP_Assessment))

\* The record r, appended for keyword number k whose search gave serp, holds
\* that keyword's buckets, entries for the calls made for that keyword only,
\* and the Decision that these entries give.
OwnTrail(r, k, serp) ==
    /\ r.Keyword = keywords[k]
    /\ r.SERP_Results_Found <=> (serp # <<>>)
    /\ serp = <<>> =>
           /\ r.Initial_Classification = EmptyMap
           /\ r.Known_PLP_Assessment = EmptyMap
           /\ r.Unknown_URL_Assessment = EmptyMap
           /\ r.Known_PDP_Assessment = EmptyMap
           /\ r.Decision = "No (Irrelevant)"
    /\ serp # <<>> =>
           /\ r.Initial_Classification = ClassifyAll(serp, known_plps_list)
           /\ ExactTrail("assess_listing", k, r.Known_PLP_Assessment, FAILED_PLP)
           /\ ExactTrail("assess_unknown", k, r.Unknown_URL_Assessment, FAILED_UNKNOWN)
           /\ ExactTrail("assess_detail", k, r.Known_PDP_Assessment, FAILED_PDP)
           /\ r.Decision = DecisionOfTrail(r).Decision
           /\ r.Justification = DecisionOfTrail(r).Justification

\* C27: nothing of a keyword is left for the next one: the step that
\* classifies a keyword's urls sets the buckets from that keyword's search
\* alone, empties the three assessment maps and resets the evidence,
\* whatever their values were; and every record, when appended, holds its
\* own keyword's buckets, the entries of its own keyword's calls and the
\* Decision these entries give.
C27_NoLeakBetweenKeywords ==
    [][ /\ pc = "classify" =>
              /\ classified_urls' = ClassifyAll(serp_df, known_plps_list)
              /\ assessments' = << EmptyMap, EmptyMap, EmptyMap >>
              /\ evidence' = << FALSE, None, FALSE >>
        /\ Len(results_list') > Len(results_list) =>
              /\ Len(results_list') = ki
              /\ OwnTrail(Last(results_list'), ki, serp_df')
      ]_vars

\* C27's case: the first keyword ended on a Related product and a new
\* category; the second one, whose only call failed, ends without evidence.
C27_Witness ==
    /\ Len(results_list) = 2
    /\ results_list[1].Decision = "Yes (Create *new* category)"
    /\ results_list[2].SERP_Results_Found
    /\ results_list[2].Decision = "No (No relevant products/pages)"
    /\ \E u \in DOMAIN results_list[2].Unknown_URL_Assessment :
           results_list[2].Unknown_URL_Assessment[u] = FAILED_UNKNOWN

\* C28: every provider call returning, each keyword reaches its Decision
\* and the batch ends having appended a record for the last keyword: no
\* keyword run stalls or ends without a Decision.
C28_BatchEndsWithEveryDecision ==
    <>( /\ pc = "done"
        /\ Len(results_list) = Len(keywords)
        /\ \A i \in 1..Len(results_list) : results_list[i].Decision \in DECISIONS )

====
